---- MODULE Spec2Model ----
(***************************************************************************)
(* Page-layout reconstruction engine of fek-extractor                      *)
(* (src/src/fek_extractor/io/pdf.py): paragraph joiner, split smoother,    *)
(* ColumnExtractor.process_page and the document loop extract_text_whole.  *)
(*                                                                         *)
(* Numbers.  Python floats are modelled by exact rationals <<n, d>> with   *)
(* d > 0 in lowest terms; coordinates of text runs are whole points.       *)
(* Text.  A string is a sequence of symbols.  A symbol is one character    *)
(* class representative or one fixed word/phrase of the gazette            *)
(* vocabulary; the regular expressions of the source are translated to     *)
(* matchers over symbol sequences.                                         *)
(***************************************************************************)
EXTENDS Integers, Sequences, FiniteSets, TLC

VARIABLES
    doc,               \* doc[r]: the pages extract_pages yields for run r
    pc,                \* pc[r]: "idle" | "loop" | "done" | "raised"
    fetched,           \* fetched[r]: pages pulled from the generator so far
    out_pages,         \* out_pages[r]: list of page texts
    full_text,         \* full_text[r]: returned document text (or None)
    prev_split_x,      \* extractor fields, one extractor per run
    prev_w,
    terminal_reached,
    seen_any_article,
    store,             \* store[s]: SplitSmoother.store of smoother object s
    obs,               \* obs[r]: what the last process_page call of run r did
    call               \* a call of a unit under test: its arguments and result

vars == <<doc, pc, fetched, out_pages, full_text, prev_split_x, prev_w,
          terminal_reached, seen_any_article, store, obs, call>>

\* Optional numbers: None is the empty tuple, a number is a pair <<n, d>>;
\* float("inf") is <<1, 0>>; a raised ZeroDivisionError is RAISED.
None == <<>>
Inf == <<1, 0>>
RAISED == <<0, 0, 0>>

(***************************************************************************)
(* Exact rational arithmetic (Python float arithmetic, without rounding).  *)
(***************************************************************************)
Abs(n) == IF n < 0 THEN -n ELSE n

RECURSIVE Gcd(_, _)
Gcd(a, b) == IF b = 0 THEN a ELSE Gcd(b, a % b)

Q(n, d) ==
    LET g == Gcd(Abs(n), Abs(d))
        s == IF d < 0 THEN -1 ELSE 1
    IN  <<(s * n) \div g, (s * d) \div g>>

QI(n) == <<n, 1>>
QAdd(a, b) == Q(a[1] * b[2] + b[1] * a[2], a[2] * b[2])
QSub(a, b) == Q(a[1] * b[2] - b[1] * a[2], a[2] * b[2])
QMul(a, b) == Q(a[1] * b[1], a[2] * b[2])
QDiv(a, b) == Q(a[1] * b[2], a[2] * b[1])
QLt(a, b) == a[1] * b[2] < b[1] * a[2]
QLe(a, b) == a[1] * b[2] <= b[1] * a[2]
QAbs(a) == <<Abs(a[1]), a[2]>>
QMax(a, b) == IF QLt(a, b) THEN b ELSE a
QMin(a, b) == IF QLt(b, a) THEN b ELSE a
QFloor(a) == a[1] \div a[2]
\* int(x): truncation toward zero
QInt(a) == IF a[1] >= 0 THEN a[1] \div a[2] ELSE -((-a[1]) \div a[2])
\* round(x): Python 3 rounds halves to the even neighbour
QRound(a) ==
    LET f == QFloor(a)
        twice == QSub(QMul(QI(2), a), QI(2 * f))   \* 2 * (a - f), in [0, 2)
    IN  IF QLt(twice, QI(1)) THEN f
        ELSE IF QLt(QI(1), twice) THEN f + 1
        ELSE IF f % 2 = 0 THEN f ELSE f + 1

(***************************************************************************)
(* Sequence helpers.                                                       *)
(***************************************************************************)
\* F(x), with x evaluated once
Once(F(_), x) == CHOOSE r \in {F(v) : v \in {x}} : TRUE

\* the concatenation of the lists of ss (halving keeps the nesting shallow)
RECURSIVE Flatten(_)
Flatten(ss) ==
    IF ss = <<>> THEN <<>>
    ELSE IF Len(ss) = 1 THEN ss[1]
    ELSE Flatten(SubSeq(ss, 1, Len(ss) \div 2))
         \o Flatten(SubSeq(ss, Len(ss) \div 2 + 1, Len(ss)))

\* sep.join(parts)
RECURSIVE JoinWith(_, _)
JoinWith(sep, parts) ==
    IF parts = <<>> THEN <<>>
    ELSE IF Len(parts) = 1 THEN parts[1]
    ELSE JoinWith(sep, SubSeq(parts, 1, Len(parts) \div 2))
         \o sep \o JoinWith(sep, SubSeq(parts, Len(parts) \div 2 + 1, Len(parts)))

Last(s) == s[Len(s)]
Front(s) == SubSeq(s, 1, Len(s) - 1)
Range(s) == {s[i] : i \in DOMAIN s}

(***************************************************************************)
(* Text symbols.                                                           *)
(*   one character each:                                                   *)
(*     "lc"  Greek small letter, U+03B1..U+03C9 (alpha .. omega)           *)
(*     "lt"  Greek small letter with tonos (U+03AC..U+03AF, U+03CC..03CE)  *)
(*     "le"  Greek Extended small letter (U+1F00)                          *)
(*     "UC"  Greek capital letter, U+0391..U+03A9                          *)
(*     "UE"  Greek Extended capital letter (U+1F08)                        *)
(*     "x"   Latin small letter      "d"   decimal digit                   *)
(*     "-"   hyphen-minus U+002D     "shy" soft hyphen U+00AD              *)
(*     "nd"  en dash U+2013          "sp"  space                           *)
(*     "."   full stop               "nl"  line feed                       *)
(*   one word or phrase each: see WordLen.                                 *)
(***************************************************************************)
NL == <<"nl">>

IsSpace(c) == c \in {"sp", "nl"}

\* str.lstrip()
RECURSIVE LStrip(_)
LStrip(s) == IF s # <<>> /\ IsSpace(Head(s)) THEN LStrip(Tail(s)) ELSE s

\* str.rstrip()
RECURSIVE RStrip(_)
RStrip(s) == IF s # <<>> /\ IsSpace(Last(s)) THEN RStrip(Front(s)) ELSE s

\* str.strip()
Strip(s) == RStrip(LStrip(s))

\* GREEK_LOWER_START = ^[\u03B1-\u03C9\u1F00-\u1FFF]: the two ranges hold the
\* unaccented small letters and the whole Greek Extended block, capitals
\* included; the small letters with tonos lie outside both.
GREEK_LOWER_START(s) == s # <<>> /\ Head(s) \in {"lc", "le", "UE"}

\* str.endswith("-")
EndsWithHyphen(s) == s # <<>> /\ Last(s) = "-"

(***************************************************************************)
(* Lines: (x0, y0, x1, y1, text).                                          *)
(***************************************************************************)
Ln(x0, y0, x1, y1, t) == [x0 |-> x0, y0 |-> y0, x1 |-> x1, y1 |-> y1, t |-> t]

\* the paragraph test with the gap measured upwards
ParagraphBreak_upwards(ly0, ly1, y0, y1) ==
    LET vgap == QI(y1 - ly0)
        avg_height == QMax(QI(1), QDiv(QI((ly1 - ly0) + (y1 - y0)), QI(2)))
    IN  QLt(QMul(Q(6, 10), avg_height), vgap)

(***************************************************************************)
(* _lines_to_text: group lines into paragraphs and repair hyphenation.     *)
(***************************************************************************)
\* vgap > 0.6 * avg_height, with avg_height = max(1.0, mean of the heights)
ParagraphBreak(ly0, ly1, y0, y1) ==
    LET vgap == QI(ly0 - y1)
        avg_height == QMax(QI(1), QDiv(QI((ly1 - ly0) + (y1 - y0)), QI(2)))
    IN  QLt(QMul(Q(6, 10), avg_height), vgap)

\* flush(): a non-empty curr becomes a paragraph
Flush(paras, curr) == IF curr # <<>> THEN Append(paras, curr) ELSE paras

\* the merge test of the loop body
MergesWithPrev(curr, s) ==
    curr # <<>> /\ EndsWithHyphen(Last(curr)) /\ GREEK_LOWER_START(LStrip(s))

\* one iteration of the loop for a line after the first
JoinStep(st, ln) ==
    LET brk == ParagraphBreak(st.last_y0, st.last_y1, ln.y0, ln.y1)
        paras1 == IF brk THEN Flush(st.paras, st.curr) ELSE st.paras
        curr1 == IF brk THEN <<>> ELSE st.curr
        curr2 == IF MergesWithPrev(curr1, ln.t)
                 THEN [curr1 EXCEPT ![Len(curr1)] = Front(@) \o LStrip(ln.t)]
                 ELSE Append(curr1, ln.t)
    IN  [paras |-> paras1, curr |-> curr2, last_y0 |-> ln.y0, last_y1 |-> ln.y1]

RECURSIVE JoinLoop(_, _)
JoinLoop(st, lines) ==
    IF lines = <<>> THEN st
    ELSE Once(LAMBDA st1 : JoinLoop(st1, Tail(lines)), JoinStep(st, Head(lines)))

\* the paragraphs (lists of line strings) the loop leaves, last flush included
JoinParas(lines) ==
    Once(LAMBDA st : Flush(st.paras, st.curr),
         JoinLoop([paras |-> <<>>, curr |-> <<lines[1].t>>,
                   last_y0 |-> lines[1].y0, last_y1 |-> lines[1].y1],
                  Tail(lines)))

\* "\n".join("\n".join(p) for p in paras)
TextOfParas(paras) ==
    JoinWith(NL, [i \in DOMAIN paras |-> JoinWith(NL, paras[i])])

_lines_to_text(lines) ==
    IF lines = <<>> THEN <<>> ELSE Once(TextOfParas, JoinParas(lines))

\* str.split("\n")
RECURSIVE SplitLines(_)
SplitLines(s) ==
    IF \A i \in DOMAIN s : s[i] # "nl" THEN <<s>>
    ELSE LET k == CHOOSE i \in DOMAIN s :
                     s[i] = "nl" /\ \A j \in 1..(i - 1) : s[j] # "nl"
         IN  <<SubSeq(s, 1, k - 1)>> \o SplitLines(SubSeq(s, k + 1, Len(s)))

(***************************************************************************)
(***************************************************************************)
(* Vocabulary.  Besides the single characters, these words and phrases of  *)
(* the gazette are symbols; Word gives, for each, its length in            *)
(* characters, the classes of its first and last character, whether all    *)
(* its characters lie in U+0386..U+03AB, whether it holds a digit and      *)
(* whether it holds one of the characters ".:;" or a bullet/dash of        *)
(* _looks_titleish.                                                        *)
(*   "Arthro"        the article keyword of ARTICLE_HEAD_RE                *)
(*   "Paraggellome"  a proclamation verb of PROCLAIM_RE                    *)
(*   "PARARTIMA"     the annex keyword of ANNEX_HEADING_RE                 *)
(*   "II"            a Roman numeral (Latin capitals)                      *)
(*   "tou"           the article of an inline annex continuation           *)
(*   "O_Ypourgos"    a ministerial opener of SIGNATURE_HEADER_RE           *)
(*   "Athina_date"   a place-and-date line of DATE_LINE_RE                 *)
(*   "Theorithike"   the seal opener of SEAL_LINE_RE                       *)
(*   "EFIMERIDA"     the gazette masthead of _ET_GAZETTE_RE                *)
(*   "Tefchos"       the issue keyword of _ISSUE_RE                        *)
(*   "www.et.gr"     a site of _SITE_RE                                    *)
(*   "Kapodistriou"  a contact word of _CONTACT_RE                         *)
(***************************************************************************)
Chars == {"lc", "lt", "le", "UC", "UE", "x", "LX", "d",
          "-", "shy", "nd", "sp", ".", "nl"}

W(len, first, last, upper, digit, punct) ==
    [len |-> len, first |-> first, last |-> last, upper |-> upper,
     digit |-> digit, punct |-> punct]

Word ==
    [ Arthro |-> W(5, "UC", "lc", FALSE, FALSE, FALSE),
      Paraggellome |-> W(12, "UC", "lc", FALSE, FALSE, FALSE),
      PARARTIMA |-> W(9, "UC", "UC", TRUE, FALSE, FALSE),
      II |-> W(2, "LX", "LX", FALSE, FALSE, FALSE),
      tou |-> W(3, "lc", "lc", FALSE, FALSE, FALSE),
      O_Ypourgos |-> W(10, "UC", "lc", FALSE, FALSE, FALSE),
      Athina_date |-> W(19, "UC", "d", FALSE, TRUE, FALSE),
      Theorithike |-> W(20, "UC", "lc", FALSE, FALSE, FALSE),
      EFIMERIDA |-> W(25, "UC", "UC", FALSE, FALSE, FALSE),
      Tefchos |-> W(6, "UC", "lc", FALSE, FALSE, FALSE),
      Kapodistriou |-> W(13, "UC", "lc", FALSE, FALSE, FALSE) ]
    @@ ("www.et.gr" :> W(9, "x", "x", FALSE, FALSE, TRUE))

\* properties of a symbol
SymLen(c) == IF c \in Chars THEN 1 ELSE Word[c].len
FirstChar(c) == IF c \in Chars THEN c ELSE Word[c].first
LastChar(c) == IF c \in Chars THEN c ELSE Word[c].last
\* every character in [Ά-Ϋ]
AllUpperGreek(c) == IF c \in Chars THEN c = "UC" ELSE Word[c].upper
HasDigit(c) == IF c \in Chars THEN c = "d" ELSE Word[c].digit
HasStrongPunct(c) == IF c \in Chars THEN c \in {".", "nd"} ELSE Word[c].punct

\* \w
IsWordChar(c) == c \in {"lc", "lt", "le", "UC", "UE", "x", "LX", "d"}

\* \b after a matched word character: the text ends or a non-word follows
Boundary(rest) == rest = <<>> \/ ~IsWordChar(FirstChar(Head(rest)))

\* len(s)
RECURSIVE TextLen(_)
TextLen(s) ==
    IF s = <<>> THEN 0
    ELSE IF Len(s) = 1 THEN SymLen(s[1])
    ELSE TextLen(SubSeq(s, 1, Len(s) \div 2))
         + TextLen(SubSeq(s, Len(s) \div 2 + 1, Len(s)))

\* the text after its leading symbols of a class
RECURSIVE DropWhile(_, _)
DropWhile(s, cls) ==
    IF s # <<>> /\ Head(s) \in cls THEN DropWhile(Tail(s), cls) ELSE s

\* ^\s*<word>\b
StartsWithWord(t, w) ==
    LET s == LStrip(t) IN s # <<>> /\ Head(s) = w /\ Boundary(Tail(s))

\* ARTICLE_HEAD_RE = ^\s*Arthro\s+\d+\b
ARTICLE_HEAD_RE(t) ==
    LET s == LStrip(t)
        afterWord == IF s = <<>> THEN <<>> ELSE Tail(s)
        afterWs == LStrip(afterWord)
        afterDigits == DropWhile(afterWs, {"d"})
    IN  /\ s # <<>> /\ Head(s) = "Arthro"
        /\ Len(afterWs) < Len(afterWord)
        /\ Len(afterDigits) < Len(afterWs)
        /\ Boundary(afterDigits)

\* PROCLAIM_RE = ^\s*(proclamation verb)\b
PROCLAIM_RE(t) == StartsWithWord(t, "Paraggellome")

\* SIGNATURE_HEADER_RE = ^\s*(ministerial or presidential opener)\b
SIGNATURE_HEADER_RE(t) == StartsWithWord(t, "O_Ypourgos")

\* DATE_LINE_RE = ^\s*Athina,\s*\d{1,2}\s+<month>\s+\d{4}\b
DATE_LINE_RE(t) == StartsWithWord(t, "Athina_date")

\* SEAL_LINE_RE = ^\s*Theorithike\s+kai\s+tethike
SEAL_LINE_RE(t) == LET s == LStrip(t) IN s # <<>> /\ Head(s) = "Theorithike"

\* characters in the leading run of [Ά-Ϋ] symbols, and what follows
RECURSIVE UpperRunLen(_)
UpperRunLen(s) ==
    IF s # <<>> /\ AllUpperGreek(Head(s)) THEN SymLen(Head(s)) + UpperRunLen(Tail(s))
    ELSE 0

RECURSIVE UpperRunRest(_)
UpperRunRest(s) ==
    IF s # <<>> /\ AllUpperGreek(Head(s)) THEN UpperRunRest(Tail(s)) ELSE s

\* (?:[\s\-–][Ά-Ϋ]{2,})+$ with k groups matched so far
RECURSIVE UpperNameTail(_, _)
UpperNameTail(s, k) ==
    IF s = <<>> \/ s = NL THEN k >= 1
    ELSE /\ Head(s) \in {"sp", "nl", "-", "nd"}
         /\ UpperRunLen(Tail(s)) >= 2
         /\ UpperNameTail(UpperRunRest(Tail(s)), k + 1)

\* UPPER_GREEK_NAME_RE = ^[Ά-Ϋ]{2,}(?:[\s\-–][Ά-Ϋ]{2,})+$
UPPER_GREEK_NAME_RE(t) ==
    UpperRunLen(t) >= 2 /\ UpperRunRest(t) # <<>> /\ UpperNameTail(UpperRunRest(t), 0)

\* the text after the match of ANNEX_HEADING_RE =
\* ^\s*PARARTIMA(?:\s+<Roman>)?\b, or NoMatch
NoMatch == <<"no match">>

AnnexHeadingRest(t) ==
    LET s == LStrip(t)
        afterWord == IF s = <<>> THEN <<>> ELSE Tail(s)
        afterWs == LStrip(afterWord)
        afterRoman == DropWhile(afterWs, {"II"})
        withRoman == /\ Len(afterWs) < Len(afterWord)
                     /\ Len(afterRoman) < Len(afterWs)
                     /\ Boundary(afterRoman)
    IN  IF s = <<>> \/ Head(s) # "PARARTIMA" THEN NoMatch
        ELSE IF withRoman THEN afterRoman
        ELSE IF Boundary(afterWord) THEN afterWord
        ELSE NoMatch

\* _is_annex_heading_line
_is_annex_heading_line(txt) ==
    /\ txt # <<>>
    /\ AnnexHeadingRest(txt) # NoMatch
    /\ ~StartsWithWord(AnnexHeadingRest(txt), "tou")

\* _looks_titleish
_looks_titleish(s) ==
    LET ts == Strip(s)
    IN  /\ TextLen(ts) >= 2 /\ TextLen(ts) <= 60
        /\ \A i \in DOMAIN ts : ~HasDigit(ts[i])
        /\ \A i \in DOMAIN ts : ~HasStrongPunct(ts[i])

\* _is_signatureish
_is_signatureish(line_text) ==
    LET ts == Strip(line_text)
    IN  /\ ts # <<>>
        /\ \/ PROCLAIM_RE(ts)
           \/ SIGNATURE_HEADER_RE(ts)
           \/ DATE_LINE_RE(ts)
           \/ SEAL_LINE_RE(ts)
           \/ UPPER_GREEK_NAME_RE(ts)

(***************************************************************************)
(* Header/footer filtering.                                                *)
(***************************************************************************)
\* _PAGE_NUM_RE = ^\s*\d{3,5}\s*$
_PAGE_NUM_RE(ts) ==
    LET s == Strip(ts)
    IN  Len(s) >= 3 /\ Len(s) <= 5 /\ \A i \in DOMAIN s : s[i] = "d"

\* _PAGE_COUNTER_RE = ^\s*\d{3,5}\s*[non-ASCII dash]\s*\d{1,2}\s*$
_PAGE_COUNTER_RE(ts) ==
    LET s == Strip(ts)
        afterNum == DropWhile(s, {"d"})
        n1 == Len(s) - Len(afterNum)
        atDash == LStrip(afterNum)
        afterDash == IF atDash = <<>> THEN <<>> ELSE LStrip(Tail(atDash))
        n2 == Len(afterDash) - Len(DropWhile(afterDash, {"d"}))
    IN  /\ n1 >= 3 /\ n1 <= 5
        /\ atDash # <<>> /\ Head(atDash) = "nd"
        /\ n2 >= 1 /\ n2 <= 2 /\ n2 = Len(afterDash)

\* _is_header_footer_line; y0, y1 and page_h are numbers of points
_is_header_footer_line(line, _page_w, page_h) ==
    LET ts == Strip(line.t)
        top_band == \/ QLe(QMul(Q(88, 100), page_h), QI(line.y1))
                    \/ QLe(QMul(Q(86, 100), page_h), QI(line.y0))
        bot_band == \/ QLe(QI(line.y0), QMul(Q(12, 100), page_h))
                    \/ QLe(QI(line.y1), QMul(Q(14, 100), page_h))
    IN  IF line.t = <<>> THEN FALSE
        ELSE IF "EFIMERIDA" \in Range(ts) THEN TRUE
        ELSE IF ~(top_band \/ bot_band) THEN FALSE
        ELSE \/ StartsWithWord(ts, "Tefchos")
             \/ "www.et.gr" \in Range(ts)
             \/ "Kapodistriou" \in Range(ts)
             \/ _PAGE_NUM_RE(ts)
             \/ _PAGE_COUNTER_RE(ts)

\* _filter_headers_footers
_filter_headers_footers(lines, page_w, page_h) ==
    SelectSeq(lines, LAMBDA ln : ~_is_header_footer_line(ln, page_w, page_h))

(***************************************************************************)
(* Column split detection.                                                 *)
(***************************************************************************)
\* sum(xs): exact addition is associative, and halving the list keeps the
\* nesting shallow
RECURSIVE QSum(_)
QSum(xs) ==
    IF xs = <<>> THEN QI(0)
    ELSE IF Len(xs) = 1 THEN xs[1]
    ELSE Once(LAMBDA a : QAdd(a, QSum(SubSeq(xs, Len(xs) \div 2 + 1, Len(xs)))),
              QSum(SubSeq(xs, 1, Len(xs) \div 2)))

\* sum(xs) / len(xs)
Mean(xs) == QDiv(QSum(xs), QI(Len(xs)))

\* statistics.pvariance
SquaredDeviations(xs, m) ==
    [i \in DOMAIN xs |-> Once(LAMBDA dev : QMul(dev, dev), QSub(xs[i], m))]

pvariance(xs) ==
    Once(LAMBDA m : Once(Mean, SquaredDeviations(xs, m)), Mean(xs))

\* sorted / list.sort on numbers: the place of xs[i] in the sorted list is
\* the number of entries that come before it, equal ones in input order
QRanks(xs) ==
    [i \in DOMAIN xs |->
        Cardinality({j \in DOMAIN xs :
                        QLt(xs[j], xs[i]) \/ (~QLt(xs[i], xs[j]) /\ j <= i)})]

QPlaced(xs, ranks) ==
    [k \in DOMAIN xs |-> xs[CHOOSE i \in DOMAIN xs : ranks[i] = k]]

QSorted(xs) == Once(LAMBDA ranks : QPlaced(xs, ranks), QRanks(xs))

\* the middle of a sorted list
Middle(ys) ==
    LET n == Len(ys)
    IN  IF n % 2 = 1 THEN ys[(n + 1) \div 2]
        ELSE QDiv(QAdd(ys[n \div 2], ys[n \div 2 + 1]), QI(2))

\* statistics.median of a non-empty list
median(xs) == Once(Middle, Once(QSorted, xs))

\* the two clusters around the centres c1 and c2
Assign(xs, c1, c2) ==
    [left |-> SelectSeq(xs, LAMBDA x : QLe(QAbs(QSub(x, c1)), QAbs(QSub(x, c2)))),
     right |-> SelectSeq(xs, LAMBDA x : ~QLe(QAbs(QSub(x, c1)), QAbs(QSub(x, c2))))]

\* the new centres of two non-empty clusters
Centres(a) == [c1 |-> Mean(a.left), c2 |-> Mean(a.right)]

\* abs(n1 - c1) + abs(n2 - c2) < 0.5
Settled(n, c1, c2) ==
    QLt(QAdd(QAbs(QSub(n.c1, c1)), QAbs(QSub(n.c2, c2))), Q(1, 2))

\* One pass of the assignment loop of _kmeans2_1d with k passes left:
\* None when a cluster is empty, else the centres and clusters at loop exit.
RECURSIVE KMeansLoop(_, _, _, _)
KMeansPass(xs, a, n, c1, c2, k) ==
    IF Settled(n, c1, c2) \/ k = 1
    THEN [c1 |-> n.c1, c2 |-> n.c2, left |-> a.left, right |-> a.right]
    ELSE KMeansLoop(xs, n.c1, n.c2, k - 1)

KMeansAssigned(xs, a, c1, c2, k) ==
    IF a.left = <<>> \/ a.right = <<>> THEN None
    ELSE Once(LAMBDA n : KMeansPass(xs, a, n, c1, c2, k), Centres(a))

KMeansLoop(xs, c1, c2, k) ==
    Once(LAMBDA a : KMeansAssigned(xs, a, c1, c2, k), Assign(xs, c1, c2))

KMeansIters == 12

PooledFloor == Q(1, 1000000)

\* the pooled variance of the two clusters, floored
PooledVariance(var1, var2, nl, nr) ==
    QMax(QDiv(QAdd(QMul(var1, QI(nl - 1)), QMul(var2, QI(nr - 1))),
              QI(IF nl + nr - 2 > 1 THEN nl + nr - 2 ELSE 1)),
         PooledFloor)

\* what _kmeans2_1d returns after its loop ended with r
KMeansResult(r) ==
    IF r = None THEN None
    ELSE <<QMin(r.c1, r.c2), QMax(r.c1, r.c2), Len(r.left), Len(r.right),
           PooledVariance(IF Len(r.left) > 1 THEN pvariance(r.left) ELSE QI(0),
                          IF Len(r.right) > 1 THEN pvariance(r.right) ELSE QI(0),
                          Len(r.left), Len(r.right))>>

\* the loop of _kmeans2_1d on the sorted xs
KMeansOfSorted(xs) ==
    Once(KMeansResult, KMeansLoop(xs, xs[1], xs[Len(xs)], KMeansIters))

\* _kmeans2_1d: None or <<cL, cR, nL, nR, pooled>>
_kmeans2_1d(xs0) ==
    IF Len(xs0) < 6 THEN None ELSE Once(KMeansOfSorted, QSorted(xs0))

\* max(0, min(bins - 1, int(bins * (x / page_w))))
BinOf(x, bins, extent) ==
    LET b == QInt(QMul(QI(bins), QDiv(x, extent)))
    IN  IF b < 0 THEN 0 ELSE IF b > bins - 1 THEN bins - 1 ELSE b

RECURSIVE SumInts(_)
SumInts(s) ==
    IF s = <<>> THEN 0
    ELSE IF Len(s) = 1 THEN s[1]
    ELSE SumInts(SubSeq(s, 1, Len(s) \div 2))
         + SumInts(SubSeq(s, Len(s) \div 2 + 1, Len(s)))

\* the while loops that widen the valley to the left and to the right
\* where "while L > 0 and sm[L] <= thr: L -= 1" stops, started at L
ValleyLeft(sm, L, thr) ==
    CHOOSE k \in 0..L :
        /\ k = 0 \/ ~QLe(sm[k], thr)
        /\ \A j \in (k + 1)..L : QLe(sm[j], thr)

\* where "while R < bins - 1 and sm[R] <= thr: R += 1" stops, started at R
ValleyRight(sm, R, thr, bins) ==
    CHOOSE k \in R..(bins - 1) :
        /\ k = bins - 1 \/ ~QLe(sm[k], thr)
        /\ \A j \in R..(k - 1) : QLe(sm[j], thr)

SmoothHalfWindow == 5

\* hist: the line heights accumulated over the bins each counted line spans
OccupancyHist(counted, bins, page_w) ==
    LET lo == [i \in DOMAIN counted |-> BinOf(QI(counted[i].x0), bins, page_w)]
        hi == [i \in DOMAIN counted |-> BinOf(QI(counted[i].x1), bins, page_w)]
        height == [i \in DOMAIN counted |->
                     IF counted[i].y1 - counted[i].y0 > 0
                     THEN counted[i].y1 - counted[i].y0 ELSE 0]
    IN  [b \in 0..(bins - 1) |->
           SumInts([i \in DOMAIN counted |->
                      IF \/ lo[i] <= b /\ b <= hi[i]
                         \/ hi[i] <= b /\ b <= lo[i]
                      THEN height[i] ELSE 0])]

\* sm: the centred moving average of hist
SmoothedHist(hist, bins) ==
    [i \in 0..(bins - 1) |->
       LET j0 == IF i - SmoothHalfWindow > 0 THEN i - SmoothHalfWindow ELSE 0
           j1 == IF i + SmoothHalfWindow < bins - 1
                 THEN i + SmoothHalfWindow ELSE bins - 1
       IN  Q(SumInts([k \in 1..(j1 - j0 + 1) |-> hist[j0 + k - 1]]), j1 - j0 + 1)]

\* the deepest valley of sm in the middle band, if deep and wide enough
ValleySplit(sm, med, bins, page_w) ==
    LET mid_lo == QInt(QMul(Q(40, 100), QI(bins)))
        mid_hi == QInt(QMul(Q(60, 100), QI(bins)))
    IN  IF mid_hi <= mid_lo THEN None
        ELSE
          LET min_idx == CHOOSE i \in mid_lo..(mid_hi - 1) :
                            /\ \A j \in mid_lo..(mid_hi - 1) : QLe(sm[i], sm[j])
                            /\ \A j \in mid_lo..(i - 1) : ~QLe(sm[j], sm[i])
              depth_ok == QLe(sm[min_idx], QMul(Q(1, 2), med))
              thr == QMul(Q(3, 4), med)
              L == ValleyLeft(sm, min_idx, thr)
              R == ValleyRight(sm, min_idx, thr, bins)
              width_ok == QLe(Q(6, 100), Q(R - L, bins))
          IN  IF ~(depth_ok /\ width_ok) THEN None
              ELSE QMul(Q(min_idx, bins), page_w)

ValleySplitOfSmoothed(sm, bins, page_w) ==
    Once(LAMBDA med : ValleySplit(sm, med, bins, page_w),
         median([k \in 1..bins |-> sm[k - 1]]))

\* the steps of _vertical_occupancy_split after the histogram is built
ValleyOfHist(hist, bins, page_w) ==
    IF \A b \in 0..(bins - 1) : hist[b] = 0 THEN None
    ELSE Once(LAMBDA sm : ValleySplitOfSmoothed(sm, bins, page_w),
              SmoothedHist(hist, bins))

\* _vertical_occupancy_split: None, the valley's x, or RAISED (division by
\* a zero page width)
_vertical_occupancy_split(lines, page_w, _page_h, y_cut) ==
    LET bins == IF QFloor(QDiv(page_w, QI(10))) > 48
                THEN QFloor(QDiv(page_w, QI(10))) ELSE 48
        counted == SelectSeq(lines, LAMBDA ln : ~QLe(QI(ln.y1), y_cut))
    IN  IF counted # <<>> /\ page_w = QI(0) THEN RAISED
        ELSE Once(LAMBDA hist : ValleyOfHist(hist, bins, page_w),
                  OccupancyHist(counted, bins, page_w))

\* gap / math.sqrt(pooled_var) < 2.0, for gap >= 72
SeparationTooSmall(gap, pooled_var) ==
    IF pooled_var = PooledFloor THEN QLt(gap, Q(2, 1000))
    ELSE QLt(QMul(gap, gap), QMul(QI(4), pooled_var))

MinGapPts == 72

\* (x0 + x1) / 2.0
Mid(ln) == Q(ln.x0 + ln.x1, 2)

\* _choose_split_x after k-means returned km
SplitOfClusters(km, narrow_lines, page_w, _page_h, y_cut) ==
    IF km = None THEN None
    ELSE IF \/ QLt(QSub(km[2], km[1]),
                   QMax(QI(MinGapPts), QMul(Q(14, 100), page_w)))
            \/ km[3] < 3
            \/ km[4] < 3
         THEN None
    ELSE IF SeparationTooSmall(QSub(km[2], km[1]), km[5]) THEN None
    ELSE Once(LAMBDA split_from_valley :
                IF split_from_valley # None THEN split_from_valley
                ELSE QDiv(QAdd(km[1], km[2]), QI(2)),
              _vertical_occupancy_split(narrow_lines, page_w, _page_h, y_cut))

\* _choose_split_x: None, the split's x, or RAISED
_choose_split_x(narrow_lines, page_w, _page_h, y_cut) ==
    IF narrow_lines = <<>> THEN None
    ELSE Once(LAMBDA km : SplitOfClusters(km, narrow_lines, page_w, _page_h, y_cut),
              _kmeans2_1d([i \in DOMAIN narrow_lines |-> Mid(narrow_lines[i])]))

(***************************************************************************)
(* SplitSmoother: rolling median split ratio per (w, h, rotation)          *)
(* signature.  A store maps each signature it holds to a deque of ratios.  *)
(***************************************************************************)
\* deque(maxlen=7)
DequeMaxLen == 7

\* a tolerance twice as wide
Tolerance_doubled == Q(30, 100)

\* Python's default tolerance argument of suggest: 0.15
Tolerance == Q(15, 100)

\* a signature that leaves the height out
_sig_without_height(w, h, rot) == <<QRound(w), 0, rot % 360>>

\* SplitSmoother._sig
_sig(w, h, rot) == <<QRound(w), QRound(h), rot % 360>>

\* a deque that, when full, gives up its newest entry for the new one
DequeAppend_evicts_newest(dq, x) ==
    IF Len(dq) >= DequeMaxLen THEN Append(SubSeq(dq, 1, Len(dq) - 1), x)
    ELSE Append(dq, x)

\* deque.append under maxlen: the oldest entry leaves first
DequeAppend(dq, x) ==
    IF Len(dq) >= DequeMaxLen THEN Append(Tail(dq), x) ELSE Append(dq, x)

\* the defaultdict's entry for a signature (created empty when missing)
Entry(st, sig) == IF sig \in DOMAIN st THEN st[sig] ELSE <<>>

\* SplitSmoother.push: the store after the call
push(st, w, h, rot, split_x) ==
    LET ratio == QDiv(split_x, QMax(QI(1), w))
        sig == _sig(w, h, rot)
    IN  [k \in DOMAIN st \cup {sig} |->
            IF k = sig THEN DequeAppend(Entry(st, sig), ratio) ELSE st[k]]

\* SplitSmoother.median_for
median_for(st, w, h, rot) ==
    LET dq == Entry(st, _sig(w, h, rot))
    IN  IF dq = <<>> THEN None ELSE median(dq)

\* SplitSmoother.suggest with the comparison of a candidate one tolerance
\* too eager: it snaps at a deviation equal to the tolerance
suggest_snaps_at_tolerance(st, w, h, rot, candidate_split) ==
    LET med == median_for(st, w, h, rot)
        cand_ratio == QDiv(candidate_split, QMax(QI(1), w))
    IN  IF med = None THEN candidate_split
        ELSE IF QLe(Tolerance, QAbs(QSub(cand_ratio, med))) THEN QMul(med, w)
        ELSE candidate_split

\* SplitSmoother.suggest
suggest(st, w, h, rot, candidate_split) ==
    LET med == median_for(st, w, h, rot)
        cand_ratio == QDiv(candidate_split, QMax(QI(1), w))
    IN  IF med = None THEN candidate_split
        ELSE IF QLt(Tolerance, QAbs(QSub(cand_ratio, med))) THEN QMul(med, w)
        ELSE candidate_split

(***************************************************************************)
(* ColumnExtractor.process_page.                                           *)
(***************************************************************************)
WIDE_FRAC == Q(70, 100)

MARGIN_BELOW == QI(20)

\* (y0 + y1) / 2.0
YMid(ln) == Q(ln.y0 + ln.y1, 2)

\* width >= WIDE_FRAC * w
IsWide(ln, w) == QLe(QMul(WIDE_FRAC, w), QI(ln.x1 - ln.x0))

IsHead(ln) == ARTICLE_HEAD_RE(ln.t)

\* PROCLAIM_RE.match(t) or _is_signatureish(t)
IsEvidence(ln) == PROCLAIM_RE(ln.t) \/ _is_signatureish(ln.t)

\* the sort key with the bottom line first
KeyLt_bottom_first(a, b) == a.y1 < b.y1 \/ (a.y1 = b.y1 /\ a.x0 < b.x0)

\* sorted(lines, key=lambda L: (-L[3], L[0])): a stable sort
KeyLt(a, b) == a.y1 > b.y1 \/ (a.y1 = b.y1 /\ a.x0 < b.x0)

\* the place of lines[i] in the sorted list: the number of lines that come
\* before it, lines of equal key in input order
LineRanks(lines) ==
    [i \in DOMAIN lines |->
        Cardinality({j \in DOMAIN lines :
                        \/ KeyLt(lines[j], lines[i])
                        \/ ~KeyLt(lines[i], lines[j]) /\ j <= i})]

LinesPlaced(lines, ranks) ==
    [k \in DOMAIN lines |-> lines[CHOOSE i \in DOMAIN lines : ranks[i] = k]]

SortLines(lines) == Once(LAMBDA ranks : LinesPlaced(lines, ranks), LineRanks(lines))

\* index of the first element a loop with a break stops at, 0 when none
FirstIdx(s, P(_)) ==
    IF \E i \in DOMAIN s : P(s[i])
    THEN CHOOSE i \in DOMAIN s : P(s[i]) /\ \A j \in 1..(i - 1) : ~P(s[j])
    ELSE 0

\* the smallest y_mid of the article heads among the lines, or None
LastHeadY(lines) ==
    LET heads == {i \in DOMAIN lines : IsHead(lines[i])}
    IN  IF heads = {} THEN None
        ELSE YMid(lines[CHOOSE i \in heads :
                            \A j \in heads : QLe(YMid(lines[i]), YMid(lines[j]))])

\* _estimate_column_bottom: float("inf"), the top of the two-column band,
\* or RAISED (division by a zero page height)
\* the last bin of the run that starts at bin i
RunEnd(both, i, bins) ==
    CHOOSE j \in i..(bins - 1) :
        /\ \A k \in i..j : both[k] = 1
        /\ j = bins - 1 \/ both[j + 1] = 0

\* bins = max(48, int(h // 15))
ColumnBins(h) ==
    IF QFloor(QDiv(h, QI(15))) > 48 THEN QFloor(QDiv(h, QI(15))) ELSE 48

\* per narrow line: its bin b, and whether its midpoint is left of the split
Placed(narrow, split_x, bins, h) ==
    [k \in DOMAIN narrow |->
        [b |-> BinOf(YMid(narrow[k]), bins, h),
         left |-> QLt(Mid(narrow[k]), split_x)]]

\* left_cnt and right_cnt
SideCounts(placed, bins) ==
    [left_cnt |-> [i \in 0..(bins - 1) |->
                     Cardinality({k \in DOMAIN placed :
                                     placed[k].b = i /\ placed[k].left})],
     right_cnt |-> [i \in 0..(bins - 1) |->
                      Cardinality({k \in DOMAIN placed :
                                      placed[k].b = i /\ ~placed[k].left})]]

\* both, before the gaps are filled
BothPresent(cnt, bins) ==
    [i \in 0..(bins - 1) |->
        IF cnt.left_cnt[i] > 0 /\ cnt.right_cnt[i] > 0 THEN 1 ELSE 0]

\* the in-place gap filling reads, at i, only entries that the pass has not
\* changed: a filled both[i - 1] would need both[i] = 1
FillGaps(both0, bins) ==
    [i \in 0..(bins - 1) |->
        IF /\ both0[i] = 0 /\ 1 <= i /\ i < bins - 1
           /\ both0[i - 1] = 1 /\ both0[i + 1] = 1
        THEN 1 ELSE both0[i]]

\* the run (i, j - 1, j - i, weight) that starts at bin i and ends at bin high
RunFrom(cnt, i, high) ==
    <<i, high, high - i + 1,
      SumInts([k \in 1..(high - i + 1) |->
                 cnt.left_cnt[i + k - 1] + cnt.right_cnt[i + k - 1]])>>

\* runs, as a set
RunsOf(both, cnt, bins) ==
    {RunFrom(cnt, i, RunEnd(both, i, bins)) :
        i \in {j \in 0..(bins - 1) : both[j] = 1 /\ (j = 0 \/ both[j - 1] = 0)}}

\* runs.sort(key=(length, weight)) is stable: of equal keys the later run
\* ends last
RunLe(a, b) ==
    \/ a[3] < b[3]
    \/ a[3] = b[3] /\ a[4] < b[4]
    \/ a[3] = b[3] /\ a[4] = b[4] /\ a[1] <= b[1]

\* a fixed minimum of four bins
MinRunLength_four(bins) == 4

\* max(4, int(0.08 * bins))
MinRunLength(bins) ==
    IF QInt(QMul(Q(8, 100), QI(bins))) > 4
    THEN QInt(QMul(Q(8, 100), QI(bins))) ELSE 4

\* the answer for runs[-1]
BottomOfRun(last, bins, h) ==
    IF last[3] < MinRunLength(bins) THEN Inf ELSE QMul(Q(last[1], bins), h)

BottomOfRuns(runs, bins, h) ==
    IF runs = {} THEN Inf
    ELSE BottomOfRun(CHOOSE s \in runs : \A o \in runs : RunLe(o, s), bins, h)

BottomOfCounts(cnt, bins, h) ==
    Once(LAMBDA both : BottomOfRuns(RunsOf(both, cnt, bins), bins, h),
         FillGaps(BothPresent(cnt, bins), bins))

_estimate_column_bottom(narrow, split_x, w, h) ==
    IF narrow = <<>> THEN Inf
    ELSE IF h = QI(0) THEN RAISED
    ELSE Once(LAMBDA bins :
                Once(LAMBDA cnt : BottomOfCounts(cnt, bins, h),
                     SideCounts(Placed(narrow, split_x, bins, h), bins)),
              ColumnBins(h))

\* The single-column path (step 4, and again verbatim in the unbalanced
\* fallback of step 7): the lines kept and whether the page is terminal.
SingleColumn(lines, seen) ==
    LET ordered == SortLines(lines)
        last_head_y == LastHeadY(ordered)
        IsAnnex(ln) == _is_annex_heading_line(ln.t)
        AnnexBelowHead(ln) == IsAnnex(ln) /\ QLt(YMid(ln), last_head_y)
        hit == IF last_head_y # None THEN FirstIdx(ordered, AnnexBelowHead)
               ELSE IF seen THEN FirstIdx(ordered, IsAnnex)
               ELSE 0
    IN  IF hit # 0
        THEN [kept |-> SelectSeq(ordered, LAMBDA ln :
                          QLt(YMid(ordered[hit]), YMid(ln)) /\ ~IsAnnex(ln)),
              terminal |-> TRUE,
              y_cut |-> YMid(ordered[hit]),
              cut_reason |-> "annex"]
        ELSE [kept |-> ordered,
              terminal |-> \E i \in DOMAIN ordered : IsEvidence(ordered[i]),
              y_cut |-> None,
              cut_reason |-> "none"]

\* a classification whose tail zone begins at the margin itself
Classify_from_margin(lines, split_x, w, y_bottom_cols) ==
    LET have_tail_zone == y_bottom_cols # Inf
        below_or_near_boundary(ln) ==
            /\ have_tail_zone
            /\ \/ QLe(YMid(ln), QSub(y_bottom_cols, MARGIN_BELOW))
               \/ IsHead(ln) /\ QLe(QAbs(QSub(YMid(ln), y_bottom_cols)), QI(24))
        isLeft(ln) == QLt(Mid(ln), split_x)
    IN  [left |-> SelectSeq(lines, LAMBDA ln :
                     ~below_or_near_boundary(ln) /\ ~IsWide(ln, w) /\ isLeft(ln)),
         right |-> SelectSeq(lines, LAMBDA ln :
                     ~below_or_near_boundary(ln) /\ ~IsWide(ln, w) /\ ~isLeft(ln)),
         wide_upper |-> SelectSeq(lines, LAMBDA ln :
                     ~below_or_near_boundary(ln) /\ IsWide(ln, w)),
         wide_lower |-> SelectSeq(lines, LAMBDA ln :
                     below_or_near_boundary(ln) /\ IsWide(ln, w)),
         tail_single |-> SelectSeq(lines, LAMBDA ln :
                     below_or_near_boundary(ln) /\ ~IsWide(ln, w))]

\* Step 6: the five buckets of the classification, each in input order
Classify(lines, split_x, w, y_bottom_cols) ==
    LET have_tail_zone == y_bottom_cols # Inf
        below_or_near_boundary(ln) ==
            /\ have_tail_zone
            /\ \/ QLt(YMid(ln), QSub(y_bottom_cols, MARGIN_BELOW))
               \/ IsHead(ln) /\ QLe(QAbs(QSub(YMid(ln), y_bottom_cols)), QI(24))
        isLeft(ln) == QLt(Mid(ln), split_x)
    IN  [left |-> SelectSeq(lines, LAMBDA ln :
                     ~below_or_near_boundary(ln) /\ ~IsWide(ln, w) /\ isLeft(ln)),
         right |-> SelectSeq(lines, LAMBDA ln :
                     ~below_or_near_boundary(ln) /\ ~IsWide(ln, w) /\ ~isLeft(ln)),
         wide_upper |-> SelectSeq(lines, LAMBDA ln :
                     ~below_or_near_boundary(ln) /\ IsWide(ln, w)),
         wide_lower |-> SelectSeq(lines, LAMBDA ln :
                     below_or_near_boundary(ln) /\ IsWide(ln, w)),
         tail_single |-> SelectSeq(lines, LAMBDA ln :
                     below_or_near_boundary(ln) /\ ~IsWide(ln, w))]

\* a promotion that takes the lines around the head, above it too
Promote_around_head(b, have_tail_zone) ==
    LET tail == b.tail_single \o b.wide_lower
        tail_evidence == \E i \in DOMAIN tail : IsEvidence(tail[i])
        tail_heads == SelectSeq(tail, IsHead)
    IN  IF ~(have_tail_zone /\ tail_evidence /\ tail_heads # <<>>) THEN b
        ELSE
          LET y_head == YMid(tail_heads[CHOOSE i \in DOMAIN tail_heads :
                          \A j \in DOMAIN tail_heads :
                              QLe(YMid(tail_heads[j]), YMid(tail_heads[i]))])
              moves(ln) == /\ QLe(QAbs(QSub(y_head, YMid(ln))), QI(64))
                           /\ _looks_titleish(ln.t)
          IN  [b EXCEPT
                 !.left = SelectSeq(b.left, LAMBDA ln : ~moves(ln)),
                 !.right = SelectSeq(b.right, LAMBDA ln : ~moves(ln)),
                 !.tail_single = b.tail_single \o SelectSeq(b.left, moves)
                                               \o SelectSeq(b.right, moves)]

\* Step 6.5: article cluster promotion
Promote(b, have_tail_zone) ==
    LET tail == b.tail_single \o b.wide_lower
        tail_evidence == \E i \in DOMAIN tail : IsEvidence(tail[i])
        tail_heads == SelectSeq(tail, IsHead)
    IN  IF ~(have_tail_zone /\ tail_evidence /\ tail_heads # <<>>) THEN b
        ELSE
          LET y_head == YMid(tail_heads[CHOOSE i \in DOMAIN tail_heads :
                          \A j \in DOMAIN tail_heads :
                              QLe(YMid(tail_heads[j]), YMid(tail_heads[i]))])
              moves(ln) == /\ QLt(YMid(ln), y_head)
                           /\ QLe(QSub(y_head, YMid(ln)), QI(64))
                           /\ _looks_titleish(ln.t)
          IN  [b EXCEPT
                 !.left = SelectSeq(b.left, LAMBDA ln : ~moves(ln)),
                 !.right = SelectSeq(b.right, LAMBDA ln : ~moves(ln)),
                 !.tail_single = b.tail_single \o SelectSeq(b.left, moves)
                                               \o SelectSeq(b.right, moves)]

\* the unbalanced test without the floor of three lines
Starving_below_share_only(b) ==
    LET body_count == Len(b.left) + Len(b.right)
        share == QMul(Q(15, 100), QI(body_count))
    IN  body_count >= 8 /\ (QLt(QI(Len(b.left)), share) \/ QLt(QI(Len(b.right)), share))

\* Step 7: the unbalanced test
Starving(b) ==
    LET body_count == Len(b.left) + Len(b.right)
        floor == QMax(QI(3), QMul(Q(15, 100), QI(body_count)))
    IN  body_count >= 8 /\ (QLt(QI(Len(b.left)), floor) \/ QLt(QI(Len(b.right)), floor))

\* Smart tail trimming: the cut anchor <<y_cut, cut_reason>> of a two-column
\* page whose buckets s are sorted
TailCut(s, seen) ==
    LET tail_all_sorted == SortLines(s.tail_single \o s.wide_lower)
        body_sorted == SortLines(s.wide_upper \o s.left \o s.right)
        all_sorted == SortLines(s.wide_upper \o s.left \o s.right \o tail_all_sorted)
        last_head_y_tail ==
            LastHeadY(tail_all_sorted \o s.left \o s.right \o s.wide_upper)
        IsProclaim(ln) == PROCLAIM_RE(ln.t)
        IsAnnex(ln) == _is_annex_heading_line(ln.t)
        AfterHead(ln) == QLt(YMid(ln), last_head_y_tail)
        AnnexAfterHead(ln) == AfterHead(ln) /\ IsAnnex(ln)
        SignatureAfterHead(ln) ==
            (last_head_y_tail = None \/ AfterHead(ln)) /\ _is_signatureish(ln.t)
        below == IF last_head_y_tail = None THEN <<>>
                 ELSE SelectSeq(tail_all_sorted, AfterHead)
        IsCaps(k) == UPPER_GREEK_NAME_RE(below[k].t)
        proclaim == FirstIdx(tail_all_sorted, IsProclaim)
        annexTail == IF last_head_y_tail = None THEN 0
                     ELSE FirstIdx(tail_all_sorted, AnnexAfterHead)
        annexBody == IF last_head_y_tail = None THEN 0
                     ELSE FirstIdx(body_sorted, AnnexAfterHead)
        annexAny == IF last_head_y_tail = None /\ seen
                    THEN FirstIdx(all_sorted, IsAnnex) ELSE 0
        signature == FirstIdx(tail_all_sorted, SignatureAfterHead)
        capsAt == {k \in 2..Len(below) : IsCaps(k - 1) /\ IsCaps(k)}
    IN  IF proclaim # 0 THEN <<YMid(tail_all_sorted[proclaim]), "proclaim">>
        ELSE IF annexTail # 0 THEN <<YMid(tail_all_sorted[annexTail]), "annex">>
        ELSE IF annexBody # 0 THEN <<YMid(body_sorted[annexBody]), "annex">>
        ELSE IF annexAny # 0 THEN <<YMid(all_sorted[annexAny]), "annex">>
        ELSE IF signature # 0 THEN <<YMid(tail_all_sorted[signature]), "signature">>
        ELSE IF capsAt # {}
             THEN <<YMid(below[(CHOOSE k \in capsAt : \A j \in capsAt : k <= j) - 1]),
                    "caps">>
        ELSE <<None, "none">>

\* a filter that keeps the line at the cut
_keep_from_cut_and_not_annex(lines_sorted, cut) ==
    SelectSeq(lines_sorted, LAMBDA ln :
        /\ ~_is_annex_heading_line(ln.t)
        /\ cut = None \/ (QLe(cut, YMid(ln)) /\ ~PROCLAIM_RE(ln.t)))

\* _keep_above_and_not_annex
_keep_above_and_not_annex(lines_sorted, cut) ==
    SelectSeq(lines_sorted, LAMBDA ln :
        /\ ~_is_annex_heading_line(ln.t)
        /\ cut = None \/ (QLt(cut, YMid(ln)) /\ ~PROCLAIM_RE(ln.t)))

\* out_parts with a separator after every bucket but the last, empty or not
OutParts_separator_per_bucket(emits) ==
    Flatten([k \in DOMAIN emits |->
               IF k = 1 THEN <<_lines_to_text(emits[k])>>
               ELSE <<<<>>, _lines_to_text(emits[k])>>])

\* out_parts of the unified emission: the texts of the non-empty buckets,
\* with an empty part between two of them
OutParts(emits) ==
    Flatten([k \in DOMAIN emits |->
               IF emits[k] = <<>> THEN <<>>
               ELSE IF \A j \in 1..(k - 1) : emits[j] = <<>>
                    THEN <<_lines_to_text(emits[k])>>
               ELSE <<<<>>, _lines_to_text(emits[k])>>])

\* The observation of a page that process_page has not classified
NoBuckets ==
    [left |-> <<>>, right |-> <<>>, wide_upper |-> <<>>,
     wide_lower |-> <<>>, tail_single |-> <<>>]

\* Steps 0-2 of process_page, which read the page only: the filtered lines,
\* whether an article head is among them, the narrow lines and the split
\* detected on the page itself
PageFacts(pg) ==
    LET lines == _filter_headers_footers(pg.lines, pg.w, pg.h)
        narrow_for_split == SelectSeq(lines, LAMBDA ln : ~IsWide(ln, pg.w))
    IN  [lines |-> lines,
         page_has_article |-> \E i \in DOMAIN lines : IsHead(lines[i]),
         narrow_for_split |-> narrow_for_split,
         split_x |-> _choose_split_x(narrow_for_split, pg.w, pg.h, QI(0))]

\* the remembered split reused whatever the width of the page
StickySplit_any_width(own, e, w) ==
    IF /\ own = None
       /\ e.prev_split_x # None
       /\ e.prev_w # None /\ e.prev_w # QI(0)
    THEN e.prev_split_x
    ELSE own

\* Step 3, sticky reuse: the split before smoothing
StickySplit(own, e, w) ==
    IF /\ own = None
       /\ e.prev_split_x # None
       /\ e.prev_w # None /\ e.prev_w # QI(0)
       /\ QLt(QAbs(QSub(e.prev_w, w)), Q(1, 2))
    THEN e.prev_split_x
    ELSE own

\* what a process_page call starts from: nothing cut, nothing emitted, the
\* remembered split as it was, the store after step 3
Started(f, e, seen, candidate, split_x, st1) ==
    [raised |-> FALSE, text |-> <<>>, seen_any_article |-> seen,
     prev_split_x |-> e.prev_split_x, prev_w |-> e.prev_w,
     terminal_reached |-> e.terminal_reached, store |-> st1,
     mode |-> "1col", own |-> f.split_x,
     sticky |-> f.split_x = None /\ candidate # None,
     candidate |-> candidate, split |-> split_x,
     y_bottom_cols |-> Inf, routed |-> NoBuckets, buckets |-> NoBuckets,
     y_cut |-> None, cut_reason |-> "none", emitted |-> <<>>]

\* steps 4 and 7 return the single-column text
ReturnSingle(base, single, mode, b) ==
    [base EXCEPT !.mode = mode, !.buckets = b,
                 !.text = _lines_to_text(single.kept),
                 !.terminal_reached = base.terminal_reached \/ single.terminal,
                 !.y_cut = single.y_cut, !.cut_reason = single.cut_reason,
                 !.emitted = single.kept]

\* step 9 and the end of process_page: the sorted buckets s are emitted
\* above the cut, and the split is remembered
ReturnColumns(base, split_x, w, y_bottom_cols, s, cut) ==
    LET emits == [k \in DOMAIN s |-> _keep_above_and_not_annex(s[k], cut[1])]
        order == <<emits.wide_upper, emits.left, emits.right,
                   emits.tail_single, emits.wide_lower>>
    IN  [base EXCEPT
           !.mode = "2col",
           !.text = RStrip(JoinWith(NL, OutParts(order))),
           !.prev_split_x = split_x,
           !.prev_w = w,
           !.terminal_reached = base.terminal_reached \/ cut[2] # "none",
           !.y_bottom_cols = y_bottom_cols,
           !.buckets = s,
           !.y_cut = cut[1], !.cut_reason = cut[2],
           !.emitted = Flatten(order)]

\* steps 7-8 on the buckets b of steps 6 and 6.5
FromBuckets(base, f, seen, split_x, w, y_bottom_cols, b) ==
    IF Starving(b)
    THEN [ReturnSingle(base, SingleColumn(f.lines, seen), "unbalanced", b)
            EXCEPT !.y_bottom_cols = y_bottom_cols]
    ELSE Once(LAMBDA s : ReturnColumns(base, split_x, w, y_bottom_cols, s,
                                       TailCut(s, seen)),
              [k \in DOMAIN b |-> SortLines(b[k])])

\* steps 5-6.5, with the split in use; routed keeps the buckets of step 6
\* as they were before the promotion
FromSplit(base, pg, f, seen, split_x, y_bottom_cols) ==
    IF y_bottom_cols = RAISED
    THEN [base EXCEPT !.raised = TRUE, !.mode = "raised"]
    ELSE Once(LAMBDA r :
                Once(LAMBDA b : FromBuckets([base EXCEPT !.routed = r], f, seen,
                                            split_x, pg.w, y_bottom_cols, b),
                     Promote(r, y_bottom_cols # Inf)),
              Classify(f.lines, split_x, pg.w, y_bottom_cols))

\* steps 4-9, after sticky reuse and smoothing
FromCandidate(pg, f, e, st, seen, candidate, split_x) ==
    Once(LAMBDA base :
           IF f.split_x = RAISED
           THEN [base EXCEPT !.raised = TRUE, !.mode = "raised", !.store = st,
                             !.split = None, !.candidate = None, !.sticky = FALSE]
           ELSE IF split_x = None
           THEN ReturnSingle(base, SingleColumn(f.lines, seen), "1col", NoBuckets)
           ELSE Once(LAMBDA y_bottom_cols :
                       FromSplit(base, pg, f, seen, split_x, y_bottom_cols),
                     _estimate_column_bottom(f.narrow_for_split, split_x, pg.w, pg.h)),
         Started(f, e, seen, candidate, split_x,
                 IF candidate = None THEN st
                 ELSE push(st, pg.w, pg.h, pg.rot, split_x)))

\* "self.terminal_reached = False  # reset for this page"
ResetForPage(e) == [e EXCEPT !.terminal_reached = FALSE]

\* an extractor that forgets the article heads of earlier pages
seen_on_this_page_only(e, f) == f.page_has_article

\* "if page_has_article: self.seen_any_article = True"
seen_any_article_after(e, f) == e.seen_any_article \/ f.page_has_article

\* process_page on page pg with facts f, extractor fields e and smoother
\* store st: the text returned (or the exception raised), the fields and
\* the store afterwards, and what the call did
process_page(pg, f, e, st) ==
    Once(LAMBDA candidate :
           Once(LAMBDA split_x :
                  FromCandidate(pg, f, ResetForPage(e), st,
                                seen_any_article_after(e, f),
                                candidate, split_x),
                IF candidate = None THEN None
                ELSE suggest(st, pg.w, pg.h, pg.rot, candidate)),
         StickySplit(f.split_x, e, pg.w))

(***************************************************************************)
(* State of the document runs.  Each extract_text_whole call is one run    *)
(* with its own ColumnExtractor; the unit specifications leave the runs    *)
(* idle.                                                                   *)
(***************************************************************************)
Runs == {1, 2}

\* nothing observed yet, and no page has stored a split
NoObs ==
    [mode |-> "none", page |-> 0, idx |-> 1, from |-> 0, origin |-> 0,
     own |-> None, sticky |-> FALSE, candidate |-> None, split |-> None,
     y_bottom_cols |-> Inf, routed |-> NoBuckets, buckets |-> NoBuckets,
     y_cut |-> None, cut_reason |-> "none", emitted |-> <<>>, text |-> <<>>]

NoCall == [fn |-> "none"]

runVars == <<doc, pc, fetched, out_pages, full_text, prev_split_x, prev_w,
             terminal_reached, seen_any_article, obs>>

NoRuns ==
    /\ doc = [r \in Runs |-> <<>>]
    /\ pc = [r \in Runs |-> "idle"]
    /\ fetched = [r \in Runs |-> 0]
    /\ out_pages = [r \in Runs |-> <<>>]
    /\ full_text = [r \in Runs |-> <<>>]
    /\ prev_split_x = [r \in Runs |-> None]
    /\ prev_w = [r \in Runs |-> None]
    /\ terminal_reached = [r \in Runs |-> FALSE]
    /\ seen_any_article = [r \in Runs |-> FALSE]
    /\ obs = [r \in Runs |-> NoObs]


(***************************************************************************)
(***************************************************************************)
(* The pages a document is made of.  extract_pages yields layout objects;  *)
(* an LTPage has a width, a height, a rotation and, through _iter_lines,   *)
(* its lines.  Page sizes are in points.                                   *)
(***************************************************************************)
Page(w, h, rot, lines) ==
    [kind |-> "LTPage", w |-> w, h |-> h, rot |-> rot, lines |-> lines]

\* text of lines
ArticleHead1 == <<"Arthro", "sp", "d">>
ArticleHead2 == <<"Arthro", "sp", "d", "d">>
LeftBody == <<"lc", "lc">>
RightBody == <<"le", "le">>
WideBody == <<"x", "sp", "x">>
Opener == <<"O_Ypourgos">>
CapsName == <<"UC", "UC", "sp", "UC", "UC">>
AnnexHeading == <<"PARARTIMA", "sp", "II">>
PageNumber == <<"d", "d", "d", "d">>

\* a 10pt line with its top edge at y1
Row(x0, x1, y1, t) == Ln(x0, y1 - 10, x1, y1, t)

\* a layout object that is not an LTPage
OtherObject == [kind |-> "other", w |-> QI(0), h |-> QI(0), rot |-> 0, lines |-> <<>>]

\* a page without text
BlankPage == Page(QI(480), QI(720), 0, <<>>)

\* two balanced columns, an article in each (pdfminer lists text boxes in
\* its own order, here the left boxes first)
TwoColPage ==
    Page(QI(480), QI(720), 0,
         << Row(40, 220, 650, ArticleHead1), Row(40, 220, 635, LeftBody),
            Row(40, 220, 620, LeftBody), Row(40, 220, 605, LeftBody),
            Row(260, 440, 650, ArticleHead2), Row(260, 440, 635, RightBody),
            Row(260, 440, 620, RightBody), Row(260, 440, 605, RightBody) >>)

\* a shorter page of the same width: a full-width line, then a line at the
\* right, then two at the left, and a page number at the foot
ShortPage ==
    Page(QI(480), QI(700), 0,
         << Row(40, 220, 610, LeftBody), Row(40, 220, 595, LeftBody),
            Row(260, 440, 630, RightBody), Row(40, 440, 650, WideBody),
            Row(230, 250, 40, PageNumber) >>)

\* a ministerial signature block, centred
SignaturePage ==
    Page(QI(480), QI(720), 0,
         << Row(150, 330, 650, Opener), Row(150, 330, 620, CapsName) >>)

\* the same block on a wider page
WideSignaturePage ==
    Page(QI(500), QI(720), 0,
         << Row(160, 340, 650, Opener), Row(160, 340, 620, CapsName) >>)

\* two columns on a page whose height is zero
ZeroHeightPage ==
    Page(QI(480), QI(0), 0,
         << Row(40, 220, 650, LeftBody), Row(40, 220, 635, LeftBody),
            Row(40, 220, 620, LeftBody), Row(260, 440, 650, RightBody),
            Row(260, 440, 635, RightBody), Row(260, 440, 620, RightBody) >>)

\* two columns in the left half of the page
LeftHalfPage ==
    Page(QI(480), QI(720), 0,
         << Row(20, 100, 650, LeftBody), Row(20, 100, 635, LeftBody),
            Row(20, 100, 620, LeftBody), Row(110, 190, 650, RightBody),
            Row(110, 190, 635, RightBody), Row(110, 190, 620, RightBody) >>)

\* a slim left column beside a broad right one
SlimBroadPage ==
    Page(QI(480), QI(720), 0,
         << Row(20, 60, 650, LeftBody), Row(20, 60, 635, LeftBody),
            Row(20, 60, 620, LeftBody), Row(70, 330, 650, RightBody),
            Row(70, 330, 635, RightBody), Row(70, 330, 620, RightBody) >>)

\* full-width text with an annex heading in its middle
AnnexPage ==
    Page(QI(500), QI(720), 0,
         << Row(40, 460, 650, WideBody), Row(40, 460, 620, AnnexHeading),
            Row(40, 460, 590, WideBody) >>)

Catalog ==
    << OtherObject, BlankPage, TwoColPage, ShortPage, SignaturePage,
       WideSignaturePage, ZeroHeightPage, LeftHalfPage, SlimBroadPage, AnnexPage >>

\* steps 0-2 of process_page for each page of the catalog
Facts == [i \in DOMAIN Catalog |-> PageFacts(Catalog[i])]

(***************************************************************************)
(* extract_text_whole, one loop iteration per step.                        *)
(***************************************************************************)
\* one smoother for all extractors
SharedSmoother(r) == 1

\* ColumnExtractor.__init__: every extractor constructs its own smoother
SmootherOf(r) == r

\* the loop without its break
LoopNeverExits(terminal) == FALSE

\* "if extractor.terminal_reached: break"
LoopExits(terminal) == terminal

\* "\n\n".join(out_pages).rstrip()
JoinPages(pages) == RStrip(JoinWith(<<"nl", "nl">>, pages))

\* the next layout object of run r
Pending(r) == pc[r] = "loop" /\ fetched[r] < Len(doc[r])
NextIdx(r) == doc[r][fetched[r] + 1]

\* the fields of run r's extractor
Extractor(r) ==
    [prev_split_x |-> prev_split_x[r], prev_w |-> prev_w[r],
     seen_any_article |-> seen_any_article[r],
     terminal_reached |-> terminal_reached[r]]

\* what a process_page call of run r would do now
Outcome(r) ==
    process_page(Catalog[NextIdx(r)], Facts[NextIdx(r)], Extractor(r),
                 store[SmootherOf(r)])

\* what obs keeps of an outcome: page is the position of the layout object
\* in the document and idx its place in the catalog; from is the page on
\* which the extractor's prev_split_x was stored before the call (0: none)
\* and origin the same after it
Observe(res, page, idx, from) ==
    [mode |-> res.mode, page |-> page, idx |-> idx,
     from |-> from, origin |-> IF res.mode = "2col" THEN page ELSE from,
     own |-> res.own,
     sticky |-> res.sticky, candidate |-> res.candidate, split |-> res.split,
     y_bottom_cols |-> res.y_bottom_cols, routed |-> res.routed,
     buckets |-> res.buckets,
     y_cut |-> res.y_cut, cut_reason |-> res.cut_reason,
     emitted |-> res.emitted, text |-> res.text]

\* extract_text_whole is called on a document
Start(r, d) ==
    /\ doc = [q \in Runs |-> IF q = r THEN d ELSE <<>>]
    /\ pc = [q \in Runs |-> IF q = r THEN "loop" ELSE "idle"]

\* "if not isinstance(layout, LTPage): continue"
SkipNonPage(r) ==
    /\ Pending(r)
    /\ Catalog[NextIdx(r)].kind # "LTPage"
    /\ fetched' = [fetched EXCEPT ![r] = @ + 1]
    /\ UNCHANGED <<doc, pc, out_pages, full_text, prev_split_x, prev_w,
                   terminal_reached, seen_any_article, store, obs, call>>

\* "if not lines: out_pages.append(''); continue"
EmptyPage(r) ==
    /\ Pending(r)
    /\ Catalog[NextIdx(r)].kind = "LTPage"
    /\ Catalog[NextIdx(r)].lines = <<>>
    /\ fetched' = [fetched EXCEPT ![r] = @ + 1]
    /\ out_pages' = [out_pages EXCEPT ![r] = Append(@, <<>>)]
    /\ UNCHANGED <<doc, pc, full_text, prev_split_x, prev_w,
                   terminal_reached, seen_any_article, store, obs, call>>

\* the fields process_page assigns, whether it returns or raises
Assigned(r, res) ==
    /\ fetched' = [fetched EXCEPT ![r] = @ + 1]
    /\ prev_split_x' = [prev_split_x EXCEPT ![r] = res.prev_split_x]
    /\ prev_w' = [prev_w EXCEPT ![r] = res.prev_w]
    /\ terminal_reached' = [terminal_reached EXCEPT ![r] = res.terminal_reached]
    /\ seen_any_article' = [seen_any_article EXCEPT ![r] = res.seen_any_article]
    /\ store' = [store EXCEPT ![SmootherOf(r)] = res.store]
    /\ obs' = [obs EXCEPT ![r] = Observe(res, fetched[r] + 1, NextIdx(r), @.origin)]

\* process_page returns: the text is appended, and the loop ends here if
\* the page was terminal
ProcessPage(r) ==
    /\ Pending(r)
    /\ Catalog[NextIdx(r)].kind = "LTPage"
    /\ Catalog[NextIdx(r)].lines # <<>>
    /\ \E res \in {Outcome(r)} :
           /\ ~res.raised
           /\ Assigned(r, res)
           /\ out_pages' = [out_pages EXCEPT ![r] = Append(@, res.text)]
           /\ pc' = [pc EXCEPT ![r] = IF LoopExits(res.terminal_reached)
                                      THEN "break" ELSE "loop"]
    /\ UNCHANGED <<doc, full_text, call>>

\* process_page raises ZeroDivisionError, and so does extract_text_whole
PageRaises(r) ==
    /\ Pending(r)
    /\ Catalog[NextIdx(r)].kind = "LTPage"
    /\ Catalog[NextIdx(r)].lines # <<>>
    /\ \E res \in {Outcome(r)} :
           /\ res.raised
           /\ Assigned(r, res)
           /\ pc' = [pc EXCEPT ![r] = "raised"]
    /\ UNCHANGED <<doc, out_pages, full_text, call>>

\* after the loop: the document text is built and returned
Return(r) ==
    /\ pc[r] = "break" \/ (pc[r] = "loop" /\ fetched[r] = Len(doc[r]))
    /\ full_text' = [full_text EXCEPT ![r] = JoinPages(out_pages[r])]
    /\ pc' = [pc EXCEPT ![r] = "done"]
    /\ UNCHANGED <<doc, fetched, out_pages, prev_split_x, prev_w,
                   terminal_reached, seen_any_article, store, obs, call>>

(***************************************************************************)
(* Spec: one document of at most MaxPages layout objects.                  *)
(***************************************************************************)
MaxPages == 2

Docs == UNION { [1..n -> DOMAIN Catalog] : n \in 0..MaxPages }

Init ==
    /\ \E d \in Docs : Start(1, d)
    /\ fetched = [r \in Runs |-> 0]
    /\ out_pages = [r \in Runs |-> <<>>]
    /\ full_text = [r \in Runs |-> <<>>]
    /\ prev_split_x = [r \in Runs |-> None]
    /\ prev_w = [r \in Runs |-> None]
    /\ terminal_reached = [r \in Runs |-> FALSE]
    /\ seen_any_article = [r \in Runs |-> FALSE]
    /\ store = [s \in Runs |-> <<>>]
    /\ obs = [r \in Runs |-> NoObs]
    /\ call = NoCall

Next == SkipNonPage(1) \/ EmptyPage(1) \/ ProcessPage(1) \/ PageRaises(1) \/ Return(1)

Spec == Init /\ [][Next]_vars

(***************************************************************************)
(* extract_text_whole as a function of the document: what one call, left   *)
(* alone, returns.                                                         *)
(***************************************************************************)
\* the loop from layout object i on, with extractor fields e, smoother
\* store st and page texts out
RECURSIVE LoopFrom(_, _, _, _, _)
LoopFrom(d, i, e, st, out) ==
    IF i > Len(d) THEN [raised |-> FALSE, text |-> JoinPages(out), fetched |-> Len(d)]
    ELSE IF Catalog[d[i]].kind # "LTPage" THEN LoopFrom(d, i + 1, e, st, out)
    ELSE IF Catalog[d[i]].lines = <<>> THEN LoopFrom(d, i + 1, e, st, Append(out, <<>>))
    ELSE Once(LAMBDA res :
                IF res.raised THEN [raised |-> TRUE, text |-> <<>>, fetched |-> i]
                ELSE IF LoopExits(res.terminal_reached)
                     THEN [raised |-> FALSE, text |-> JoinPages(Append(out, res.text)),
                           fetched |-> i]
                ELSE LoopFrom(d, i + 1,
                              [prev_split_x |-> res.prev_split_x, prev_w |-> res.prev_w,
                               seen_any_article |-> res.seen_any_article,
                               terminal_reached |-> res.terminal_reached],
                              res.store, Append(out, res.text)),
              process_page(Catalog[d[i]], Facts[d[i]], e, st))

extract_text_whole(d) ==
    LoopFrom(d, 1, [prev_split_x |-> None, prev_w |-> None, seen_any_article |-> FALSE,
                    terminal_reached |-> FALSE],
             <<>>, <<>>)

(***************************************************************************)
(* SpecTwo: two documents, each processed by its own extract_text_whole    *)
(* call, the loop iterations of the two calls interleaved.                 *)
(***************************************************************************)
DocsTwo ==
    { <<1, 3, 4>>,     \* another object, two columns, the short page
      <<2, 9>>,        \* a blank page, slim and broad columns
      <<9, 3>>,        \* slim and broad columns, two balanced columns
      <<3, 7>>,        \* two columns, then the page of height zero
      <<8, 6, 3>> }    \* columns in the left half, the signature block

InitTwo ==
    /\ doc \in [Runs -> DocsTwo]
    /\ pc = [r \in Runs |-> "loop"]
    /\ fetched = [r \in Runs |-> 0]
    /\ out_pages = [r \in Runs |-> <<>>]
    /\ full_text = [r \in Runs |-> <<>>]
    /\ prev_split_x = [r \in Runs |-> None]
    /\ prev_w = [r \in Runs |-> None]
    /\ terminal_reached = [r \in Runs |-> FALSE]
    /\ seen_any_article = [r \in Runs |-> FALSE]
    /\ store = [s \in Runs |-> <<>>]
    /\ obs = [r \in Runs |-> NoObs]
    /\ call = NoCall

NextTwo ==
    \E r \in Runs :
        SkipNonPage(r) \/ EmptyPage(r) \/ ProcessPage(r) \/ PageRaises(r) \/ Return(r)

SpecTwo == InitTwo /\ [][NextTwo]_vars

\* C9: each run returns what its document yields when processed alone (or
\* raises as it does alone) ...
C9_SameAsAlone ==
    \A r \in Runs :
        /\ pc[r] = "done" =>
              /\ ~extract_text_whole(doc[r]).raised
              /\ full_text[r] = extract_text_whole(doc[r]).text
        /\ pc[r] = "raised" => extract_text_whole(doc[r]).raised

\* ... and a step of one run leaves the other run's prev_split_x, prev_w,
\* split histories, seen_any_article and terminal_reached as they were.
C9_OtherRunUntouched ==
    [][\A r \in Runs :
          (pc'[r] = pc[r] /\ fetched'[r] = fetched[r]) =>
              /\ prev_split_x'[r] = prev_split_x[r]
              /\ prev_w'[r] = prev_w[r]
              /\ store'[r] = store[r]
              /\ seen_any_article'[r] = seen_any_article[r]
              /\ terminal_reached'[r] = terminal_reached[r]
              /\ out_pages'[r] = out_pages[r]]_vars

\* C9: document runs are isolated: under every interleaving each run
\* returns what its document yields alone, and no run's step changes the
\* other run's extractor fields or split histories.
C9_RunsIsolated == []C9_SameAsAlone /\ C9_OtherRunUntouched

\* both runs have returned, and both hold a history for the same signature
C9_Witness ==
    /\ pc[1] = "done" /\ pc[2] = "done"
    /\ doc[1] # doc[2]
    /\ DOMAIN store[1] \cap DOMAIN store[2] # {}

(***************************************************************************)
(* SpecJoin: _lines_to_text as a unit.  The input is a list of at most     *)
(* MaxJoinLines lines; the result is then split at its line feeds and fed  *)
(* back, one line per output line, in the same order.                      *)
(***************************************************************************)
MaxJoinLines == 3

\* texts of the fed lines
JoinTexts ==
    { <<"lc", "lt", "-">>,      \* small letters, ends with a hyphen
      <<"lc", "lc">>,           \* begins with an unaccented small letter
      <<"UC", "UC", "-">>,      \* capitals, ends with a hyphen
      <<"UC", "UC">>,           \* begins with a capital
      <<"lt", "lc">>,           \* begins with a small letter with tonos
      <<"UE", "lc">>,           \* begins with a Greek Extended capital
      <<"-">> }                 \* a lone hyphen

\* distance from one line's top edge down to the next line's top edge;
\* lines are 10pt high: 12 stays in the paragraph, 30 starts a new one
JoinDrops == {12, 30}

RECURSIVE SumTo(_, _)
SumTo(f, n) == IF n = 0 THEN 0 ELSE f[n] + SumTo(f, n - 1)

\* lines with texts ts, line i + 1 lying drops[i] below line i
MkLines(ts, drops) ==
    [i \in DOMAIN ts |->
        Ln(40, 690 - SumTo(drops, i - 1), 220, 700 - SumTo(drops, i - 1), ts[i])]

JoinInputs ==
    UNION { { MkLines(ts, drops) :
                ts \in [1..n -> JoinTexts],
                drops \in [1..(IF n = 0 THEN 0 ELSE n - 1) -> JoinDrops] } :
            n \in 0..MaxJoinLines }

InitJoin ==
    /\ NoRuns
    /\ store = [s \in Runs |-> <<>>]
    /\ call \in { [fn |-> "_lines_to_text", st |-> "called", args |-> L, ret |-> <<>>,
                     pass |-> 1, first_args |-> <<>>, first_ret |-> <<>>, drop |-> 0] :
                    L \in JoinInputs }

JoinCall ==
    /\ call.fn = "_lines_to_text"
    /\ call.st = "called"
    /\ call' = [call EXCEPT !.st = "returned", !.ret = _lines_to_text(call.args)]
    /\ UNCHANGED <<runVars, store>>

\* the output's lines become the next input; drop is their uniform spacing
JoinFeedBack ==
    /\ call.fn = "_lines_to_text"
    /\ call.st = "returned"
    /\ call.pass = 1
    /\ \E drop \in JoinDrops :
          LET ts == SplitLines(call.ret)
          IN  call' = [fn |-> "_lines_to_text", st |-> "called",
                       args |-> MkLines(ts, [i \in 1..(Len(ts) - 1) |-> drop]),
                       ret |-> <<>>, pass |-> 2,
                       first_args |-> call.args, first_ret |-> call.ret,
                       drop |-> drop]
    /\ UNCHANGED <<runVars, store>>

NextJoin == JoinCall \/ JoinFeedBack

SpecJoin == InitJoin /\ [][NextJoin]_vars

\* ---- claims about the joiner ------------------------------------------

IsLowerLetter(c) == c \in {"lc", "lt", "le"}
IsUpperLetter(c) == c \in {"UC", "UE"}

\* a returned call on exactly two lines of one paragraph, the first ending "-"
HyphenPairCall ==
    /\ call.fn = "_lines_to_text" /\ call.st = "returned" /\ call.pass = 1
    /\ Len(call.args) = 2
    /\ ~ParagraphBreak(call.args[1].y0, call.args[1].y1, call.args[2].y0, call.args[2].y1)
    /\ EndsWithHyphen(call.args[1].t)
    /\ call.args[2].t # <<>>

\* C6 (as claimed): in one paragraph, after a line ending with an ASCII
\* hyphen, a line beginning with a small letter of the script is merged
\* (hyphen dropped, no space) and a line beginning with a capital letter is
\* kept as a separate line with the hyphen kept.
C6_HyphenRepair ==
    HyphenPairCall =>
        LET a == call.args[1].t
            b == call.args[2].t
        IN  /\ IsLowerLetter(Head(b)) => call.ret = Front(a) \o b
            /\ IsUpperLetter(Head(b)) => call.ret = a \o NL \o b

\* C7 (as claimed): the joiner applied to the lines of its own output
\* returns the same string.
C7_Idempotent ==
    (call.fn = "_lines_to_text" /\ call.pass = 2 /\ call.st = "returned")
        => call.ret = call.first_ret

\* line b lies below line a by more than 0.6 x their average height (lines
\* here are at least 1pt high)
FarApart(a, b) == 10 * (a.y0 - b.y1) > 3 * ((a.y1 - a.y0) + (b.y1 - b.y0))

\* C7 (amended): the joiner applied to the lines of its own output, each
\* fed back as a paragraph of its own, returns the same string.
C7_IdempotentOwnParagraphs ==
    (call.fn = "_lines_to_text" /\ call.pass = 2 /\ call.st = "returned"
        /\ \A i \in 1..(Len(call.args) - 1) :
              FarApart(call.args[i], call.args[i + 1]))
        => call.ret = call.first_ret

\* the second pass returned for an output that still holds a hyphen-ended
\* line followed by a line the merge test accepts, after a first pass that
\* did merge lines
C7_Witness ==
    /\ call.fn = "_lines_to_text" /\ call.pass = 2 /\ call.st = "returned"
    /\ Len(call.args) < Len(call.first_args)
    /\ \A i \in 1..(Len(call.args) - 1) :
              ParagraphBreak(call.args[i].y0, call.args[i].y1,
                             call.args[i + 1].y0, call.args[i + 1].y1)
    /\ \E i \in 1..(Len(call.args) - 1) :
          EndsWithHyphen(call.args[i].t) /\ GREEK_LOWER_START(LStrip(call.args[i + 1].t))

(***************************************************************************)
(* SpecSmooth: SplitSmoother as a unit.  One smoother object receives      *)
(* pushes (at most MaxPushes ratios held) and is asked for suggestions.    *)
(***************************************************************************)
MaxPushes == 4

\* page geometries (width, height, rotation) of the unit's calls: a page of
\* half a point and an ordinary one
SmoothGeoms == { [w |-> Q(1, 2), h |-> QI(1), rot |-> 0],
                 [w |-> QI(100), h |-> QI(200), rot |-> 0] }

\* pushed splits are these ratios of max(1, width)
PushRatios == { Q(49, 100), Q(50, 100), Q(51, 100) }

\* candidate splits, as ratios of max(1, width); 0.34 lies exactly 0.15
\* from a median of 0.49, also as the floats 0.34 and 0.49
CandRatios == { Q(34, 100), Q(63, 100), Q(67, 100), Q(90, 100) }

RECURSIVE SumLen(_, _)
SumLen(st, keys) ==
    IF keys = {} THEN 0
    ELSE LET k == CHOOSE k \in keys : TRUE
         IN  Len(st[k]) + SumLen(st, keys \ {k})

InitSmooth ==
    /\ NoRuns
    /\ store = [s \in Runs |-> <<>>]
    /\ call = [fn |-> "none", g |-> [w |-> QI(1), h |-> QI(1), rot |-> 0],
               cand |-> QI(0), ret |-> QI(0)]

SmoothPush ==
    /\ SumLen(store[1], DOMAIN store[1]) < MaxPushes
    /\ \E g \in SmoothGeoms, r \in PushRatios :
          LET split_x == QMul(r, QMax(QI(1), g.w))
          IN  /\ store' = [store EXCEPT ![1] = push(@, g.w, g.h, g.rot, split_x)]
              /\ call' = [fn |-> "push", g |-> g, cand |-> split_x, ret |-> QI(0)]
    /\ UNCHANGED runVars

SmoothSuggest ==
    /\ \E g \in SmoothGeoms, r \in CandRatios :
          LET cand == QMul(r, QMax(QI(1), g.w))
          IN  call' = [fn |-> "suggest", g |-> g, cand |-> cand,
                       ret |-> suggest(store[1], g.w, g.h, g.rot, cand)]
    /\ UNCHANGED <<runVars, store>>

NextSmooth == SmoothPush \/ SmoothSuggest

SpecSmooth == InitSmooth /\ [][NextSmooth]_vars

\* ---- claims about the smoother ----------------------------------------

\* the k-th smallest of a list of numbers
KthSmallest(xs, k) ==
    CHOOSE v \in Range(xs) :
        /\ Cardinality({i \in DOMAIN xs : QLt(xs[i], v)}) < k
        /\ Cardinality({i \in DOMAIN xs : QLe(xs[i], v)}) >= k

\* the median of a non-empty history
MedianOfHistory(xs) ==
    LET n == Len(xs)
    IN  IF n % 2 = 1 THEN KthSmallest(xs, (n + 1) \div 2)
        ELSE QDiv(QAdd(KthSmallest(xs, n \div 2), KthSmallest(xs, n \div 2 + 1)), QI(2))

\* the history the smoother holds for the call's signature (suggest leaves
\* the store as it was)
CallHistory ==
    LET sig == <<QRound(call.g.w), QRound(call.g.h), call.g.rot % 360>>
    IN  IF sig \in DOMAIN store[1] THEN store[1][sig] ELSE <<>>

\* suggest's answer when the candidate's ratio is taken over divisor
SuggestAnswers(divisor) ==
    call.fn = "suggest" =>
        IF CallHistory = <<>> THEN call.ret = call.cand
        ELSE LET med == MedianOfHistory(CallHistory)
                 dev == QAbs(QSub(QDiv(call.cand, divisor), med))
             IN  IF QLe(dev, Q(15, 100)) THEN call.ret = call.cand
                 ELSE call.ret = QMul(med, call.g.w)

\* after 0.50, 0.51, 0.49 a candidate of ratio 0.90 is replaced by the
\* median 0.50
SnapExampleState ==
    /\ call.fn = "suggest"
    /\ call.g.w = QI(100)
    /\ CallHistory = <<Q(50, 100), Q(51, 100), Q(49, 100)>>
    /\ call.cand = QI(90)

SnapExample == SnapExampleState => (call.ret = QI(50) /\ call.ret # call.cand)

\* C5 (as claimed): with empty history suggest returns the candidate; with
\* history it returns the candidate when |candidate/width - median| <= 0.15
\* and median x width otherwise; 0.90 after 0.50, 0.51, 0.49 becomes 0.50.
C5_SuggestByWidth == SuggestAnswers(call.g.w) /\ SnapExample

\* C5 (amended): the candidate's ratio is candidate / max(1, width).
C5_SuggestByClampedWidth == SuggestAnswers(QMax(QI(1), call.g.w)) /\ SnapExample

C5_Witness == SnapExampleState /\ call.ret = QI(50)

(***************************************************************************)
(* Properties of the document loop and of process_page, on Spec.           *)
(***************************************************************************)
\* the page the last process_page call of run 1 worked on
ObsPage == Catalog[obs[1].idx]
Processed == obs[1].mode \in {"1col", "unbalanced", "2col"}

\* number of LTPage objects among the first k layout objects of run 1
PagesUpTo(k) == Cardinality({i \in 1..k : Catalog[doc[1][i]].kind = "LTPage"})

\* C1: once process_page has left terminal_reached true on page k, no
\* further layout object is fetched and no page text is added, the page
\* texts are those of the pages up to k, and the returned text is the one
\* the document cut after page k yields: no later page has a part in it.
C1_AfterTerminal ==
    terminal_reached[1] =>
        /\ fetched[1] = obs[1].page
        /\ pc[1] \in {"break", "done"}
        /\ Len(out_pages[1]) = PagesUpTo(obs[1].page)
        /\ pc[1] = "done" =>
              full_text[1] = extract_text_whole(SubSeq(doc[1], 1, obs[1].page)).text

C1_NothingAfterTerminal ==
    [][terminal_reached[1] => (fetched' = fetched /\ out_pages' = out_pages)]_vars

\* C1: once process_page leaves terminal_reached true on page k, the
\* returned text holds nothing of a page after k, and no page after k is
\* fetched or processed.
C1_TerminationMonotone == []C1_AfterTerminal /\ C1_NothingAfterTerminal

\* a terminal page that is not the last object of the document
C1_Witness ==
    /\ pc[1] = "done" /\ terminal_reached[1]
    /\ obs[1].page < Len(doc[1])
    /\ Catalog[doc[1][obs[1].page + 1]].kind = "LTPage"
    /\ Catalog[doc[1][obs[1].page + 1]].lines # <<>>

\* C2: the end-to-end scenario.  Page 1 has two balanced columns, each with
\* an article heading and body text; page 2 is a single-column ministerial
\* signature block.  The returned text has the left column's body before
\* the right column's body, holds no line of the signature block, and the
\* run ends with terminal_reached true on page 2.
ScenarioDoc ==
    /\ Len(doc[1]) = 2
    /\ Catalog[doc[1][1]] = TwoColPage
    /\ Catalog[doc[1][2]] \in {SignaturePage, WideSignaturePage}

\* s holds the symbols of t, contiguously
Holds(s, t) ==
    \E i \in 1..(Len(s) - Len(t) + 1) : SubSeq(s, i, i + Len(t) - 1) = t

LeftBodyBeforeRightBody(s) ==
    /\ Holds(s, LeftBody) /\ Holds(s, RightBody)
    /\ \A i, j \in DOMAIN s : (s[i] = "lc" /\ s[j] = "le") => i < j

\* C2: in the scenario the left body precedes the right body, no signature
\* line is returned and terminal_reached is true on page 2.
C2_EndToEnd ==
    (ScenarioDoc /\ pc[1] = "done") =>
        /\ LeftBodyBeforeRightBody(full_text[1])
        /\ ~Holds(full_text[1], Opener)
        /\ ~Holds(full_text[1], CapsName)
        /\ terminal_reached[1] /\ obs[1].page = 2

\* C3: a page with fewer than 6 lines narrower than 70% of the page width.
NarrowCount == Len(Facts[obs[1].idx].narrow_for_split)

\* descending top edge, then ascending x0
SingleColumnOrder(lines) ==
    \A i, j \in DOMAIN lines :
        i < j => \/ lines[i].y1 > lines[j].y1
                 \/ lines[i].y1 = lines[j].y1 /\ lines[i].x0 <= lines[j].x0

\* the same lines, each once
SameLines(a, b) == Len(a) = Len(b) /\ Range(a) = Range(b)

NarrowLines == Facts[obs[1].idx].narrow_for_split
Mids == {Mid(NarrowLines[i]) : i \in DOMAIN NarrowLines}
GapAfter(a) == {b \in Mids : QLt(a, b) /\ \A c \in Mids : ~(QLt(a, c) /\ QLt(c, b))}
Gaps == {<<a, b>> \in Mids \X Mids : b \in GapAfter(a)}
WidestGap ==
    CHOOSE g \in Gaps : \A o \in Gaps : QLe(QSub(o[2], o[1]), QSub(g[2], g[1]))
LeftCluster == SelectSeq(NarrowLines, LAMBDA ln : QLe(Mid(ln), WidestGap[1]))
RightCluster == SelectSeq(NarrowLines, LAMBDA ln : QLe(WidestGap[2], Mid(ln)))
Centroid(lines) == Mean([i \in DOMAIN lines |-> Mid(lines[i])])
Spread(lines) ==
    CHOOSE s \in {QSub(Mid(lines[i]), Mid(lines[j])) : i, j \in DOMAIN lines} :
        \A i, j \in DOMAIN lines : QLe(QSub(Mid(lines[i]), Mid(lines[j])), s)

TwoClearClusters ==
    /\ Gaps # {}
    /\ Len(LeftCluster) >= 3 /\ Len(RightCluster) >= 3
    /\ QLt(Spread(LeftCluster), QSub(WidestGap[2], WidestGap[1]))
    /\ QLt(Spread(RightCluster), QSub(WidestGap[2], WidestGap[1]))
    /\ QLt(QMul(Q(14, 100), ObsPage.w), QSub(Centroid(RightCluster), Centroid(LeftCluster)))
    /\ QLe(QI(72), QSub(Centroid(RightCluster), Centroid(LeftCluster)))

\* C4: the left bucket then holds exactly the lines of the left cluster
\* and the right bucket exactly the lines of the right cluster.
C4_ClustersRouted ==
    (Processed /\ obs[1].split = obs[1].own /\ TwoClearClusters) =>
        /\ SameLines(obs[1].buckets.left, LeftCluster)
        /\ SameLines(obs[1].buckets.right, RightCluster)

\* C8: process_page is total: whatever the page geometry and the lines, it
\* raises no exception.
C8_Total == \A r \in Runs : pc[r] # "raised" /\ obs[r].mode # "raised"

\* C10: the signature of a page, and of the page a reused split came from
PageSignature(pg) == <<QRound(pg.w), QRound(pg.h), pg.rot % 360>>
ObsSignature == PageSignature(ObsPage)
FromPage == Catalog[doc[1][obs[1].from]]

\* C10 as stated: a split obtained on a page of one signature is never
\* used on, or recorded for, a page of another signature.
C10_SignaturesNeverMix ==
    obs[1].sticky => PageSignature(FromPage) = ObsSignature

\* C10, amended, first part: a process_page call reads and changes the
\* history of the page's own signature only.  The split it uses is the
\* candidate, or the median of that history times the width when the
\* candidate's ratio is more than 0.15 away from it; the ratio of the split
\* used is appended to that history, and no other history changes.
C10_OwnHistoryOnly ==
    [][ LET pg == Catalog[obs'[1].idx]
            sig == PageSignature(pg)
            old == IF sig \in DOMAIN store[1] THEN store[1][sig] ELSE <<>>
            ratio(x) == QDiv(x, QMax(QI(1), pg.w))
            cand == obs'[1].candidate
            used == obs'[1].split
        IN  store'[1] # store[1] =>
              /\ DOMAIN store'[1] = DOMAIN store[1] \cup {sig}
              /\ \A k \in DOMAIN store[1] : k # sig => store'[1][k] = store[1][k]
              /\ store'[1][sig] = DequeAppend(old, ratio(used))
              /\ used = IF old = <<>> THEN cand
                        ELSE IF QLt(Q(15, 100),
                                    QAbs(QSub(ratio(cand), MedianOfHistory(old))))
                             THEN QMul(MedianOfHistory(old), pg.w)
                        ELSE cand ]_vars

\* C10, amended, second part: the split remembered from the last
\* two-column page is reused by width alone: on a page without a split of
\* its own whose width is within 0.5pt of that page's, whatever the two
\* signatures.
C10_ReuseByWidth ==
    obs[1].sticky =>
        /\ obs[1].from >= 1 /\ obs[1].own = None
        /\ QLt(QAbs(QSub(FromPage.w, ObsPage.w)), Q(1, 2))

\* C10, amended: histories are read and appended per signature, and the
\* remembered split is reused by width alone.
C10_PerSignatureHistory == []C10_ReuseByWidth /\ C10_OwnHistoryOnly

\* a split from a page of one signature, reused and recorded for another
C10_Witness ==
    /\ obs[1].sticky
    /\ PageSignature(FromPage) # ObsSignature
    /\ {PageSignature(FromPage), ObsSignature} \subseteq DOMAIN store[1]

(***************************************************************************)
(* SpecCalls: ColumnExtractor.process_page called directly.  One           *)
(* extractor receives at most MaxCalls calls, each on a page of CallPages, *)
(* whatever the previous call returned or raised.                          *)
(***************************************************************************)
Proclamation == <<"Paraggellome", "sp", "lc">>

\* the lines of TwoColPage and, below the columns, full-width lines with
\* the given texts, 15pt apart
TailRows(texts) == [k \in DOMAIN texts |-> Row(40, 440, 575 - 15 * k, texts[k])]
TailPage(texts) == Page(QI(480), QI(720), 0, TwoColPage.lines \o TailRows(texts))

\* below the columns: two names, an opener, an annex heading, a proclamation
AllAnchorsPage == TailPage(<<CapsName, CapsName, Opener, AnnexHeading, Proclamation>>)

\* below the columns: an opener, then an annex heading
AnnexTailPage == TailPage(<<Opener, AnnexHeading, WideBody>>)

\* below the columns: text, an opener, a name
SignatureTailPage == TailPage(<<WideBody, Opener, CapsName>>)

\* below the columns: text, then two names
CapsRunPage == TailPage(<<WideBody, CapsName, CapsName>>)

\* below the columns: one name, then text
SingleCapsPage == TailPage(<<CapsName, WideBody>>)

\* below the columns: an opener, then the page's last article head
HeadBelowOpenerPage == TailPage(<<Opener, ArticleHead1, WideBody>>)

\* two columns too short for a tail zone, the left one ending with a
\* proclamation and an opener
NoTailPage ==
    Page(QI(480), QI(720), 0,
         << Row(40, 220, 650, ArticleHead1), Row(40, 220, 635, LeftBody),
            Row(40, 220, 620, LeftBody), Row(40, 220, 605, Proclamation),
            Row(40, 220, 590, Opener),
            Row(260, 440, 650, ArticleHead2), Row(260, 440, 635, RightBody),
            Row(260, 440, 620, RightBody) >>)

\* full-width text: an article, a proclamation, an opener
OneColProclaimPage ==
    Page(QI(500), QI(720), 0,
         << Row(40, 460, 650, ArticleHead1), Row(40, 460, 635, WideBody),
            Row(40, 460, 620, Proclamation), Row(40, 460, 605, Opener) >>)

\* full-width text: an opener above the page's only article head
OneColOpenerFirstPage ==
    Page(QI(500), QI(720), 0,
         << Row(40, 460, 650, Opener), Row(40, 460, 620, ArticleHead1),
            Row(40, 460, 605, WideBody) >>)

\* full-width text: an article, a proclamation, then an annex heading
OneColAnnexLastPage ==
    Page(QI(500), QI(720), 0,
         << Row(40, 460, 650, ArticleHead1), Row(40, 460, 635, Proclamation),
            Row(40, 460, 620, AnnexHeading), Row(40, 460, 605, WideBody) >>)

\* two columns without article heads, an annex heading in the left one
AnnexInColumnPage ==
    Page(QI(480), QI(720), 0,
         << Row(40, 220, 650, LeftBody), Row(40, 220, 635, LeftBody),
            Row(40, 220, 620, AnnexHeading), Row(40, 220, 605, LeftBody),
            Row(260, 440, 650, RightBody), Row(260, 440, 635, RightBody),
            Row(260, 440, 620, RightBody), Row(260, 440, 605, RightBody) >>)

CallPages ==
    << TwoColPage, ZeroHeightPage, SignaturePage, AnnexPage, AllAnchorsPage,
       AnnexTailPage, SignatureTailPage, CapsRunPage, SingleCapsPage,
       HeadBelowOpenerPage, NoTailPage, OneColProclaimPage,
       OneColOpenerFirstPage, AnnexInColumnPage, OneColAnnexLastPage >>

\* steps 0-2 of process_page for each of them
CallFacts == [i \in DOMAIN CallPages |-> PageFacts(CallPages[i])]

MaxCalls == 2

InitCalls ==
    /\ doc = [r \in Runs |-> <<>>]
    /\ pc = [r \in Runs |-> IF r = 1 THEN "calls" ELSE "idle"]
    /\ fetched = [r \in Runs |-> 0]
    /\ out_pages = [r \in Runs |-> <<>>]
    /\ full_text = [r \in Runs |-> <<>>]
    /\ prev_split_x = [r \in Runs |-> None]
    /\ prev_w = [r \in Runs |-> None]
    /\ terminal_reached = [r \in Runs |-> FALSE]
    /\ seen_any_article = [r \in Runs |-> FALSE]
    /\ store = [s \in Runs |-> <<>>]
    /\ obs = [r \in Runs |-> NoObs]
    /\ call = NoCall

\* what process_page on page i of CallPages would do now
CallOutcome(i) ==
    process_page(CallPages[i], CallFacts[i], Extractor(1), store[SmootherOf(1)])

\* the fields the call assigns; doc keeps the pages of the calls so far
CallAssigned(res, i) ==
    /\ doc' = [doc EXCEPT ![1] = Append(@, i)]
    /\ fetched' = [fetched EXCEPT ![1] = @ + 1]
    /\ prev_split_x' = [prev_split_x EXCEPT ![1] = res.prev_split_x]
    /\ prev_w' = [prev_w EXCEPT ![1] = res.prev_w]
    /\ terminal_reached' = [terminal_reached EXCEPT ![1] = res.terminal_reached]
    /\ seen_any_article' = [seen_any_article EXCEPT ![1] = res.seen_any_article]
    /\ store' = [store EXCEPT ![SmootherOf(1)] = res.store]
    /\ obs' = [obs EXCEPT ![1] = Observe(res, fetched[1] + 1, i, @.origin)]

\* a call that returns the page text
CallReturns ==
    /\ pc[1] = "calls" /\ fetched[1] < MaxCalls
    /\ \E i \in DOMAIN CallPages :
         \E res \in {CallOutcome(i)} :
           /\ ~res.raised
           /\ CallAssigned(res, i)
           /\ out_pages' = [out_pages EXCEPT ![1] = Append(@, res.text)]
    /\ UNCHANGED <<pc, full_text, call>>

\* a call that raises ZeroDivisionError; the caller keeps the extractor
CallRaises ==
    /\ pc[1] = "calls" /\ fetched[1] < MaxCalls
    /\ \E i \in DOMAIN CallPages :
         \E res \in {CallOutcome(i)} :
           /\ res.raised
           /\ CallAssigned(res, i)
    /\ UNCHANGED <<pc, out_pages, full_text, call>>

NextCalls == CallReturns \/ CallRaises

SpecCalls == InitCalls /\ [][NextCalls]_vars

\* the filtered lines of the page of the last call, and whether a page
\* before it had an article heading
CalledLines == CallFacts[obs[1].idx].lines
Called == pc[1] = "calls" /\ obs[1].mode # "none"
Returned == Called /\ obs[1].mode # "raised"
HeadSeenBefore ==
    \E k \in 1..(fetched[1] - 1) : CallFacts[doc[1][k]].page_has_article

(***************************************************************************)
(* Properties of process_page, on SpecCalls.                               *)
(***************************************************************************)
\* a signature, date or seal opener (not a name in capitals)
IsOpenerLine(ln) ==
    \/ SIGNATURE_HEADER_RE(Strip(ln.t))
    \/ DATE_LINE_RE(Strip(ln.t))
    \/ SEAL_LINE_RE(Strip(ln.t))

\* The terminal anchor as the claims state it, with the proclamation, the
\* openers and the names looked for among the examined lines, from top to
\* bottom, and the annex heading among all the lines of the page: a
\* proclamation; else a standalone annex heading after the last article
\* heading of the page (anywhere when the page has no heading and an
\* earlier page had one); else a signature, date or seal opener after the
\* last article heading; else the first of two consecutive names in
\* capitals after the last article heading.
\* <<midpoint of the anchor line, reason>>, or <<None, "none">>.
StatedAnchor(examined, page_lines, seenBefore) ==
    LET sorted == SortLines(examined)
        all == SortLines(page_lines)
        last == LastHeadY(all)
        After(ln) == last = None \/ QLt(YMid(ln), last)
        IsProclaim(ln) == PROCLAIM_RE(ln.t)
        IsAnnex(ln) ==
            /\ _is_annex_heading_line(ln.t)
            /\ IF last = None THEN seenBefore ELSE After(ln)
        IsSignature(ln) == After(ln) /\ IsOpenerLine(ln)
        IsName(k) == After(sorted[k]) /\ UPPER_GREEK_NAME_RE(sorted[k].t)
        names == {k \in 2..Len(sorted) : IsName(k - 1) /\ IsName(k)}
    IN  IF FirstIdx(sorted, IsProclaim) # 0
        THEN <<YMid(sorted[FirstIdx(sorted, IsProclaim)]), "proclaim">>
        ELSE IF FirstIdx(all, IsAnnex) # 0
        THEN <<YMid(all[FirstIdx(all, IsAnnex)]), "annex">>
        ELSE IF FirstIdx(sorted, IsSignature) # 0
        THEN <<YMid(sorted[FirstIdx(sorted, IsSignature)]), "signature">>
        ELSE IF names # {}
        THEN <<YMid(sorted[(CHOOSE k \in names : \A j \in names : k <= j) - 1]), "caps">>
        ELSE <<None, "none">>

\* the stated anchor of the page of the last call, all its lines examined
CalledAnchor == StatedAnchor(CalledLines, CalledLines, HeadSeenBefore)

\* C11: terminal_reached is reset on every page: after a process_page call
\* (returning or raising) it is true if and only if the page of that call
\* itself contains a terminal anchor, whatever it was before the call.
C11_TerminalIffAnchorOnPage ==
    Called => (terminal_reached[1] <=> CalledAnchor[2] # "none")

\* C12: no line matching the annex-heading pattern and no line matching
\* the proclamation pattern is among the lines whose text process_page
\* returns, with or without a cut, in two-column or single-column order.
C12_NoAnnexNoProclamationEmitted ==
    Returned =>
        \A k \in DOMAIN obs[1].emitted :
            /\ ~_is_annex_heading_line(obs[1].emitted[k].t)
            /\ ~PROCLAIM_RE(obs[1].emitted[k].t)

\* the lines below the columns of the page of the last call
TailLines == obs[1].buckets.tail_single \o obs[1].buckets.wide_lower

\* the lines the detector examines: those below the columns of a
\* two-column page with a tail zone, else all the lines of the page
ExaminedLines ==
    IF obs[1].mode = "2col" /\ obs[1].y_bottom_cols # Inf
    THEN TailLines ELSE CalledLines

\* C15: the anchor is chosen in strict priority order: the topmost
\* proclamation among the examined lines; otherwise a qualifying annex
\* heading; otherwise a qualifying signature, date or seal line; otherwise
\* the first line of a qualifying run of names in capitals, each with its
\* own reason; otherwise there is no cut and no reason.
C15_StrictPriority ==
    Returned =>
        <<obs[1].y_cut, obs[1].cut_reason>>
            = StatedAnchor(ExaminedLines, CalledLines, HeadSeenBefore)

\* a returned call that used a split and found no tail zone
NoTailZoneCall ==
    Returned /\ obs[1].mode = "2col" /\ obs[1].y_bottom_cols = Inf

\* C16: on a page with a split in effect and no tail zone the detector
\* examines all the lines of the page: a proclamation anywhere, or a
\* signature, date or seal opener after the last article heading, yields a
\* cut at that line and sets terminal_reached.
C16_NoTailZoneFallsBack ==
    (NoTailZoneCall /\ CalledAnchor[2] \in {"proclaim", "signature"})
        => /\ obs[1].y_cut = CalledAnchor[1]
           /\ terminal_reached[1]

\* a returned call on a page with an annex heading, without an article
\* heading and without a proclamation among the examined lines
AnnexOnlyCall ==
    /\ Returned
    /\ ~CallFacts[obs[1].idx].page_has_article
    /\ \A k \in DOMAIN ExaminedLines : ~PROCLAIM_RE(ExaminedLines[k].t)
    /\ \E k \in DOMAIN CalledLines : _is_annex_heading_line(CalledLines[k].t)

\* the topmost annex heading of the page of the last call
TopAnnexY ==
    LET sorted == SortLines(CalledLines)
        IsAnnex(ln) == _is_annex_heading_line(ln.t)
    IN  YMid(sorted[FirstIdx(sorted, IsAnnex)])

\* C17: seen_any_article is true exactly when a page so far contained an
\* article heading, and it gates the annex rule: on a page without article
\* heading and without proclamation among the examined lines, an annex
\* heading anywhere on the page gives a cut with reason annex, at the
\* topmost such heading, and sets terminal_reached if and only if an
\* earlier page contained an article heading.
C17_AnnexGatedBySeenArticle ==
    /\ seen_any_article[1]
         <=> \E k \in 1..fetched[1] : CallFacts[doc[1][k]].page_has_article
    /\ AnnexOnlyCall =>
         /\ (obs[1].cut_reason = "annex" /\ terminal_reached[1]) <=> HeadSeenBefore
         /\ obs[1].cut_reason = "annex" => obs[1].y_cut = TopAnnexY

\* an annex heading in a column of a page without article heading cuts the
\* page because the page before had an article heading
C17_Witness ==
    /\ AnnexOnlyCall
    /\ obs[1].mode = "2col"
    /\ HeadSeenBefore
    /\ obs[1].cut_reason = "annex" /\ terminal_reached[1]
    /\ \E k \in DOMAIN obs[1].buckets.left :
          _is_annex_heading_line(obs[1].buckets.left[k].t)

\* a returned call on a page with an article heading whose signature, date
\* and seal openers all lie at or above the last article heading, and
\* without proclamation, annex heading or name in capitals
OpenerAboveHeadCall ==
    /\ Returned
    /\ LastHeadY(CalledLines) # None
    /\ \E k \in DOMAIN CalledLines : IsOpenerLine(CalledLines[k])
    /\ \A k \in DOMAIN CalledLines :
          /\ IsOpenerLine(CalledLines[k])
                => QLe(LastHeadY(CalledLines), YMid(CalledLines[k]))
          /\ ~PROCLAIM_RE(CalledLines[k].t)
          /\ ~_is_annex_heading_line(CalledLines[k].t)
          /\ ~UPPER_GREEK_NAME_RE(Strip(CalledLines[k].t))

\* C18: a signature, date or seal line whose midpoint is at or above the
\* midpoint of the page's last article heading produces no cut and does
\* not set terminal_reached, in two-column and single-column emission.
C18_OpenerAboveHeadIgnored ==
    OpenerAboveHeadCall => obs[1].y_cut = None /\ ~terminal_reached[1]

\* a returned call on a page with an article heading and, among the
\* examined lines after the last heading, a name in capitals; the page
\* has no proclamation, annex heading or signature, date or seal opener
NamesOnlyCall ==
    /\ Returned
    /\ LastHeadY(CalledLines) # None
    /\ \E k \in DOMAIN ExaminedLines :
          /\ UPPER_GREEK_NAME_RE(ExaminedLines[k].t)
          /\ QLt(YMid(ExaminedLines[k]), LastHeadY(CalledLines))
    /\ \A k \in DOMAIN CalledLines :
          /\ ~PROCLAIM_RE(CalledLines[k].t)
          /\ ~_is_annex_heading_line(CalledLines[k].t)
          /\ ~IsOpenerLine(CalledLines[k])

\* C19: the anchor of names in capitals needs a run: with two or more
\* consecutive names among the examined lines after the last article
\* heading, and no other anchor, the cut is the midpoint of the first line
\* of the run and the reason is caps; a single name that is not adjacent
\* to another gives no cut and leaves terminal_reached false.
C19_CapsNeedsRun ==
    NamesOnlyCall =>
        LET stated == StatedAnchor(ExaminedLines, CalledLines, HeadSeenBefore)
        IN  /\ <<obs[1].y_cut, obs[1].cut_reason>> = stated
            /\ stated[2] = "none" => ~terminal_reached[1]

\* the lines of the left, right and wide-upper buckets of the last call
ColumnLines ==
    obs[1].buckets.wide_upper \o obs[1].buckets.left \o obs[1].buckets.right

\* C20: when the page has a cut, every line that contributes to the page
\* text has its midpoint strictly above it, whatever its bucket, and no
\* line above the cut is removed unless it is an annex heading or a
\* proclamation; when the page has no cut, every line that is not an annex
\* heading contributes.
C20_CutAppliesToEveryBucket ==
    Returned =>
        /\ obs[1].y_cut # None =>
             /\ \A k \in DOMAIN obs[1].emitted :
                    QLt(obs[1].y_cut, YMid(obs[1].emitted[k]))
             /\ \A k \in DOMAIN CalledLines :
                    (/\ QLt(obs[1].y_cut, YMid(CalledLines[k]))
                     /\ ~_is_annex_heading_line(CalledLines[k].t)
                     /\ ~PROCLAIM_RE(CalledLines[k].t))
                        => CalledLines[k] \in Range(obs[1].emitted)
        /\ obs[1].y_cut = None =>
             \A k \in DOMAIN CalledLines :
                 ~_is_annex_heading_line(CalledLines[k].t)
                     => CalledLines[k] \in Range(obs[1].emitted)

\* a cut that removes lines of a column, and with them a line at the very
\* height of the cut
C20_Witness ==
    /\ Returned /\ obs[1].mode = "2col" /\ obs[1].y_cut # None
    /\ \E k \in DOMAIN ColumnLines :
          /\ YMid(ColumnLines[k]) = obs[1].y_cut
          /\ ~_is_annex_heading_line(ColumnLines[k].t)
          /\ ColumnLines[k] \notin Range(obs[1].emitted)
    /\ \E k \in DOMAIN obs[1].emitted : obs[1].emitted[k] \in Range(obs[1].buckets.right)


\* a returned call whose page was emitted in single-column order
SingleColumnCall == Returned /\ obs[1].mode \in {"1col", "unbalanced"}

\* C22: a page that reverts to single-column order gets the cut of the
\* two-column case: the anchor found is the first in priority order among
\* proclamation, annex heading, opener and names; when there is one,
\* terminal_reached is set and no line with its midpoint at or beyond the
\* anchor is in the page text; and terminal_reached is only set together
\* with such a cut.
C22_SingleColumnCutAlike ==
    SingleColumnCall =>
        /\ <<obs[1].y_cut, obs[1].cut_reason>> = CalledAnchor
        /\ terminal_reached[1] <=> CalledAnchor[2] # "none"
        /\ terminal_reached[1] =>
              /\ obs[1].y_cut # None
              /\ \A k \in DOMAIN obs[1].emitted :
                    QLt(obs[1].y_cut, YMid(obs[1].emitted[k]))

(***************************************************************************)
(* parsing/normalize.py: dehyphenate_text, and SpecDehyph, in which it is  *)
(* applied to a text and then to its own result.                           *)
(***************************************************************************)
\* [a-zα-ωάέήίόύώϊΐϋΰ]
_LOWER(c) == c \in {"x", "lc", "lt"}

\* [\-­‐‑]
_HYPHENS(c) == c \in {"-", "shy"}

\* the last character of the \s* run that follows t[h] (h itself when the
\* run is empty)
SpaceRunEnd(t, h) ==
    CHOOSE r \in h..Len(t) :
        /\ \A k \in (h + 1)..r : IsSpace(t[k])
        /\ r = Len(t) \/ ~IsSpace(t[r + 1])

\* whether a pattern matches with its hyphen at t[h], the search being at
\* t[i]:
\*   "soft"     ([_LOWER])­\s*([_LOWER])
\*   "newline"  ([_LOWER]+)[_HYPHENS]\s*\n\s*([_LOWER])
\*   "spaces"   ([_LOWER]+)[_HYPHENS]\s+([_LOWER])
BreakAt(t, i, h, kind) ==
    /\ h - 1 >= i
    /\ _LOWER(t[h - 1])
    /\ IF kind = "soft" THEN t[h] = "shy" ELSE _HYPHENS(t[h])
    /\ kind = "newline" => \E k \in (h + 1)..SpaceRunEnd(t, h) : t[k] = "nl"
    /\ kind = "spaces" => SpaceRunEnd(t, h) > h
    /\ SpaceRunEnd(t, h) < Len(t)
    /\ _LOWER(t[SpaceRunEnd(t, h) + 1])

\* re.sub(pattern, r"\1\2", text) from t[i] on: the leftmost match loses
\* its hyphen and spaces, and the search goes on after the match
RECURSIVE SubFrom(_, _, _)
SubFrom(t, i, kind) ==
    LET hs == {h \in (i + 1)..Len(t) : BreakAt(t, i, h, kind)}
        h == CHOOSE x \in hs : \A y \in hs : x <= y
    IN  IF hs = {} THEN SubSeq(t, i, Len(t))
        ELSE SubSeq(t, i, h - 1) \o <<t[SpaceRunEnd(t, h) + 1]>>
                \o SubFrom(t, SpaceRunEnd(t, h) + 2, kind)

\* fix_soft_hyphens_inline
fix_soft_hyphens_inline(text) ==
    IF text = <<>> THEN <<>>
    ELSE SelectSeq(SubFrom(text, 1, "soft"), LAMBDA c : c # "shy")

\* dehyphenate_text
dehyphenate_text(text) ==
    IF text = <<>> THEN <<>>
    ELSE SubFrom(SubFrom(fix_soft_hyphens_inline(text), 1, "newline"), 1, "spaces")

MaxPieces == 5

\* a text is made of at most MaxPieces of these pieces
DehyphPieces ==
    { <<"lc">>, <<"UC">>, <<"sp">>, <<"shy">>, <<"-", "sp">>, <<"-", "nl">> }

\* the texts of n pieces
DehyphTexts(n) == { Flatten(ps) : ps \in [1..n -> DehyphPieces] }

InitDehyph ==
    /\ NoRuns
    /\ store = [s \in Runs |-> <<>>]
    /\ call \in { [fn |-> "dehyphenate_text", st |-> "called", arg |-> t,
                   ret |-> <<>>, pass |-> 1] :
                    t \in UNION { DehyphTexts(n) : n \in 0..MaxPieces } }

DehyphCall ==
    /\ call.fn = "dehyphenate_text"
    /\ call.st = "called"
    /\ call' = [call EXCEPT !.st = "returned", !.ret = dehyphenate_text(call.arg)]
    /\ UNCHANGED <<runVars, store>>

\* the result is handed to dehyphenate_text again
DehyphAgain ==
    /\ call.fn = "dehyphenate_text"
    /\ call.st = "returned"
    /\ call.pass = 1
    /\ call' = [call EXCEPT !.st = "called", !.arg = call.ret, !.ret = <<>>,
                            !.pass = 2]
    /\ UNCHANGED <<runVars, store>>

NextDehyph == DehyphCall \/ DehyphAgain

SpecDehyph == InitDehyph /\ [][NextDehyph]_vars

\* C13: dehyphenate_text is idempotent: applied to its own result it
\* returns that result unchanged.
C13_DehyphenateIdempotent ==
    (call.fn = "dehyphenate_text" /\ call.st = "returned" /\ call.pass = 2)
        => call.ret = call.arg

(***************************************************************************)
(* SpecHyphen: _lines_to_text on two lines, the first ending with a        *)
(* character of the hyphen class.                                          *)
(***************************************************************************)
\* ASCII hyphen, soft hyphen, en dash
HyphenClass == {"-", "shy", "nd"}

HyphenFirsts ==
    { stem \o <<c>> : stem \in {<<"lc", "lc">>, <<"UC", "UC">>, <<"x">>},
                      c \in HyphenClass }

HyphenSeconds ==
    { <<"lc", "lc">>, <<"lt", "lc">>, <<"UC", "lc">>, <<"sp", "lc">> }

InitHyphen ==
    /\ NoRuns
    /\ store = [s \in Runs |-> <<>>]
    /\ call \in { [fn |-> "_lines_to_text", st |-> "called",
                   args |-> MkLines(<<a, b>>, <<drop>>), ret |-> <<>>,
                   pass |-> 1, first_args |-> <<>>, first_ret |-> <<>>, drop |-> 0] :
                    a \in HyphenFirsts, b \in HyphenSeconds, drop \in JoinDrops }

SpecHyphen == InitHyphen /\ [][JoinCall]_vars

\* a returned call on two lines of one paragraph, the first ending with a
\* character of the hyphen class
HyphenClassCall ==
    /\ call.fn = "_lines_to_text" /\ call.st = "returned"
    /\ Len(call.args) = 2
    /\ ~ParagraphBreak(call.args[1].y0, call.args[1].y1, call.args[2].y0, call.args[2].y1)
    /\ Last(call.args[1].t) \in HyphenClass

\* C14: when the text before ends with an ASCII hyphen, a soft hyphen or a
\* hyphen-like dash and the next line of the paragraph begins with a
\* lowercase letter, the two are merged: that character is dropped and the
\* line is concatenated without a space.
C14_HyphenClassMerged ==
    (HyphenClassCall /\ IsLowerLetter(Head(LStrip(call.args[2].t))))
        => call.ret = Front(call.args[1].t) \o LStrip(call.args[2].t)

(***************************************************************************)
(* SpecLayout: process_page, called once by a fresh extractor on a page    *)
(* put together from a full-width line at the top or none, one of a few    *)
(* column blocks, and at most MaxTailRows lines below the columns.         *)
(***************************************************************************)
MaxTailRows == 2

\* a sentence: not title-shaped
Sentence == <<"lc", "lc", ".">>

\* rows of the left and of the right column, from y1 = 650 down, 15pt apart
LeftRows(texts) == [k \in DOMAIN texts |-> Row(40, 220, 665 - 15 * k, texts[k])]
RightRows(texts) == [k \in DOMAIN texts |-> Row(260, 440, 665 - 15 * k, texts[k])]

\* an article head in the last row but one of the left column, title-shaped
\* lines and sentences around it
HeadLowColumns ==
    LeftRows(<<LeftBody, LeftBody, ArticleHead1, LeftBody>>)
        \o RightRows(<<RightBody, Sentence, RightBody, Sentence>>)

\* two, three and one line at the left of a page of eight
TwoSixColumns ==
    LeftRows(<<LeftBody, LeftBody>>)
        \o RightRows(<<ArticleHead2, RightBody, RightBody, RightBody, RightBody, RightBody>>)

ThreeFiveColumns ==
    LeftRows(<<LeftBody, LeftBody, LeftBody>>)
        \o RightRows(<<ArticleHead2, RightBody, RightBody, RightBody, RightBody>>)

OneSevenColumns ==
    LeftRows(<<LeftBody>>)
        \o RightRows(<<ArticleHead2, RightBody, RightBody, RightBody, RightBody,
                       RightBody, RightBody>>)

\* the columns of TwoColPage with lines at the edges of the tail zone
\* (midpoints 580 and 579, the band ends at 600) and article heads at the
\* edge of the 24pt window (midpoints 624 and 625)
EdgeColumns ==
    TwoColPage.lines
        \o << Row(40, 220, 585, LeftBody), Row(40, 220, 584, Sentence),
              Row(260, 440, 629, ArticleHead2), Row(260, 440, 630, ArticleHead2) >>

LayoutColumns ==
    { TwoColPage.lines, HeadLowColumns, TwoSixColumns, ThreeFiveColumns,
      OneSevenColumns, EdgeColumns }

\* a line below the columns: its text, and whether it spans the page
LayoutTailKinds ==
    { <<WideBody, TRUE>>, <<ArticleHead1, FALSE>>, <<Proclamation, TRUE>>,
      <<AnnexHeading, TRUE>> }

LayoutTailRows(kinds) ==
    [k \in DOMAIN kinds |->
        Row(40, IF kinds[k][2] THEN 440 ELSE 220, 545 - 15 * k, kinds[k][1])]

LayoutTops == { <<>>, <<Row(40, 440, 680, WideBody)>> }

\* twenty-two lines, three and four of them at the left
LongRightColumn(n) == RightRows([k \in 1..n |-> RightBody])

LopsidedPages ==
    { Page(QI(480), QI(720), 0,
           LeftRows([k \in 1..m |-> LeftBody]) \o LongRightColumn(22 - m)) :
        m \in {3, 4} }

LayoutPages(n) ==
    LopsidedPages \cup
    { Page(QI(480), QI(720), 0, top \o cols \o LayoutTailRows(kinds)) :
        top \in LayoutTops, cols \in LayoutColumns,
        kinds \in UNION { [1..m -> LayoutTailKinds] : m \in 0..n } }

\* the page of the call and how far the extractor has come: "fresh" (just
\* constructed), "primed" (it has processed TwoColPage) or "done" (it has
\* processed the page); primed keeps whether the page was the second one
InitLayout ==
    /\ doc = [r \in Runs |-> <<>>]
    /\ pc = [r \in Runs |-> IF r = 1 THEN "layout" ELSE "idle"]
    /\ fetched = [r \in Runs |-> 0]
    /\ out_pages = [r \in Runs |-> <<>>]
    /\ full_text = [r \in Runs |-> <<>>]
    /\ prev_split_x = [r \in Runs |-> None]
    /\ prev_w = [r \in Runs |-> None]
    /\ terminal_reached = [r \in Runs |-> FALSE]
    /\ seen_any_article = [r \in Runs |-> FALSE]
    /\ store = [s \in Runs |-> <<>>]
    /\ obs = [r \in Runs |-> NoObs]
    /\ call \in { [fn |-> "process_page", st |-> "fresh", page |-> pg,
                   primed |-> FALSE] : pg \in LayoutPages(MaxTailRows) }

\* the fields a process_page call of the one extractor assigns
LayoutAssigned(res) ==
    /\ fetched' = [fetched EXCEPT ![1] = @ + 1]
    /\ prev_split_x' = [prev_split_x EXCEPT ![1] = res.prev_split_x]
    /\ prev_w' = [prev_w EXCEPT ![1] = res.prev_w]
    /\ terminal_reached' = [terminal_reached EXCEPT ![1] = res.terminal_reached]
    /\ seen_any_article' = [seen_any_article EXCEPT ![1] = res.seen_any_article]
    /\ store' = [store EXCEPT ![SmootherOf(1)] = res.store]
    /\ obs' = [obs EXCEPT ![1] = Observe(res, fetched[1] + 1, 1, @.origin)]
    /\ out_pages' = [out_pages EXCEPT ![1] = Append(@, res.text)]

\* the extractor first processes TwoColPage
LayoutPrime ==
    /\ call.fn = "process_page" /\ call.st = "fresh"
    /\ \E res \in {process_page(TwoColPage, PageFacts(TwoColPage), Extractor(1),
                                store[SmootherOf(1)])} :
           LayoutAssigned(res)
    /\ call' = [call EXCEPT !.st = "primed", !.primed = TRUE]
    /\ UNCHANGED <<doc, pc, full_text>>

\* the call on the page
LayoutCall ==
    /\ call.fn = "process_page" /\ call.st \in {"fresh", "primed"}
    /\ \E res \in {process_page(call.page, PageFacts(call.page), Extractor(1),
                                store[SmootherOf(1)])} :
           LayoutAssigned(res)
    /\ call' = [call EXCEPT !.st = "done"]
    /\ UNCHANGED <<doc, pc, full_text>>

NextLayout == LayoutPrime \/ LayoutCall

SpecLayout == InitLayout /\ [][NextLayout]_vars

\* the page has been processed; its filtered lines
LaidOut == call.fn = "process_page" /\ call.st = "done"
LaidLines == _filter_headers_footers(call.page.lines, call.page.w, call.page.h)
InColumns == LaidOut /\ obs[1].mode = "2col"

(***************************************************************************)
(* Properties of the page layout, on SpecLayout.                           *)
(***************************************************************************)
\* the lines of a bucket that the page text was made of
EmittedOf(bucket) ==
    SelectSeq(bucket, LAMBDA ln : \E i \in DOMAIN obs[1].emitted : obs[1].emitted[i] = ln)

\* the buckets in the order of emission
EmissionOrder ==
    <<obs[1].buckets.wide_upper, obs[1].buckets.left, obs[1].buckets.right,
      obs[1].buckets.tail_single, obs[1].buckets.wide_lower>>

\* top-to-bottom, then left-to-right
TopDownLeftRight(bucket) ==
    \A i, j \in DOMAIN bucket :
        i < j => \/ bucket[i].y1 > bucket[j].y1
                 \/ bucket[i].y1 = bucket[j].y1 /\ bucket[i].x0 <= bucket[j].x0

\* the texts of the buckets that have emitted lines, in the order of emission
EmittedTexts ==
    LET kept == [k \in 1..5 |-> EmittedOf(EmissionOrder[k])]
        nonEmpty == SelectSeq(kept, LAMBDA b : b # <<>>)
    IN  [k \in DOMAIN nonEmpty |-> _lines_to_text(nonEmpty[k])]

\* C21: the text of a page emitted in two columns is the texts of the
\* buckets that have lines to emit, in the order wide-upper, left, right,
\* tail-single, wide-lower, each bucket top-to-bottom and then left-to-right,
\* with one blank line between two bucket texts and none for a bucket that
\* has nothing to emit.
C21_EmissionOrder ==
    InColumns =>
        /\ \A k \in 1..5 : TopDownLeftRight(EmissionOrder[k])
        /\ obs[1].text = RStrip(JoinWith(<<"nl", "nl">>, EmittedTexts))

\* all five buckets have lines in the text
C21_Witness ==
    /\ InColumns
    /\ \A k \in 1..5 : EmittedOf(EmissionOrder[k]) # <<>>
    /\ Len(EmittedTexts) = 5

\* the page had a split in effect and its lines were routed
Routed == LaidOut /\ obs[1].mode \in {"2col", "unbalanced"}

\* the sizes of the left and right buckets after promotion
BodyLeft == Len(obs[1].buckets.left)
BodyRight == Len(obs[1].buckets.right)
BodyCount == BodyLeft + BodyRight

\* a side holds fewer than the share (a fraction) of the body count
BelowShare(side, share) == QLt(QI(side), QMul(share, QI(BodyCount)))

\* C23 as stated: a page with a split reverts to single-column order
\* exactly when its body (left and right buckets after promotion) has at
\* least 8 lines and one side holds fewer than 15% of them.
C23_UnbalancedBelowShare ==
    Routed =>
        (obs[1].mode = "unbalanced"
            <=> /\ BodyCount >= 8
                /\ BelowShare(BodyLeft, Q(15, 100)) \/ BelowShare(BodyRight, Q(15, 100)))

\* C23, amended: ... and one side holds fewer than 3 lines or fewer than
\* 15% of them.
C23_UnbalancedBelowFloor ==
    Routed =>
        (obs[1].mode = "unbalanced"
            <=> /\ BodyCount >= 8
                /\ \/ BodyLeft < 3 \/ BelowShare(BodyLeft, Q(15, 100))
                   \/ BodyRight < 3 \/ BelowShare(BodyRight, Q(15, 100)))

\* a revert for a side of three lines that is below 15% of the body
C23_Witness ==
    /\ Routed /\ obs[1].mode = "unbalanced"
    /\ BodyLeft = 3 /\ BelowShare(BodyLeft, Q(15, 100))

\* how often a line occurs in a list
Count(seq, ln) == Cardinality({i \in DOMAIN seq : seq[i] = ln})

\* in how many places of the buckets b a line occurs
Places(b, ln) ==
    Count(b.left, ln) + Count(b.right, ln) + Count(b.wide_upper, ln)
        + Count(b.tail_single, ln) + Count(b.wide_lower, ln)

\* every filtered line of the page is in the buckets once, and nothing else
PartitionOfPage(b) ==
    /\ \A i \in DOMAIN LaidLines : Places(b, LaidLines[i]) = Count(LaidLines, LaidLines[i])
    /\ Len(b.left) + Len(b.right) + Len(b.wide_upper) + Len(b.tail_single)
           + Len(b.wide_lower) = Len(LaidLines)

TailBoundary == obs[1].y_bottom_cols
HasTailZone == TailBoundary # Inf

\* the midpoint lies more than 20pt beyond the boundary, or the line is an
\* article heading within 24pt of it
BeyondBoundary(ln) ==
    \/ QLt(QAdd(YMid(ln), QI(20)), TailBoundary)
    \/ /\ ARTICLE_HEAD_RE(ln.t)
       /\ QLe(QSub(YMid(ln), TailBoundary), QI(24))
       /\ QLe(QSub(TailBoundary, YMid(ln)), QI(24))

\* narrower than 70% of the page width
NarrowerThanWide(ln) == 10 * (ln.x1 - ln.x0) < 7 * QFloor(call.page.w)

\* C24: after routing and after promotion every filtered line of the page
\* is in exactly one of the five buckets.  With a tail zone the routing
\* puts a line in the tail group exactly when it is beyond the boundary
\* (tail-single when narrow, wide-lower otherwise); without one the tail
\* group is empty.  The other narrow lines are in left or right, the
\* other wide lines in wide-upper.
C24_RoutingPartition ==
    Routed =>
        /\ PartitionOfPage(obs[1].routed)
        /\ PartitionOfPage(obs[1].buckets)
        /\ \A i \in DOMAIN LaidLines :
              LET ln == LaidLines[i]
                  b == obs[1].routed
                  tail == HasTailZone /\ BeyondBoundary(ln)
              IN  /\ Count(b.tail_single, ln) > 0 <=> tail /\ NarrowerThanWide(ln)
                  /\ Count(b.wide_lower, ln) > 0 <=> tail /\ ~NarrowerThanWide(ln)
                  /\ Count(b.wide_upper, ln) > 0 <=> ~tail /\ ~NarrowerThanWide(ln)
                  /\ Count(b.left, ln) + Count(b.right, ln) > 0
                        <=> ~tail /\ NarrowerThanWide(ln)
        /\ ~HasTailZone =>
              obs[1].buckets.tail_single = <<>> /\ obs[1].buckets.wide_lower = <<>>

\* a page with a tail zone, a line exactly 20pt beyond the boundary left in
\* its column, an article heading in the tail group by the 24pt window
\* alone, both tail buckets in use and a promotion
C24_Witness ==
    /\ Routed /\ HasTailZone
    /\ \E i \in DOMAIN obs[1].routed.left :
          QAdd(YMid(obs[1].routed.left[i]), QI(20)) = TailBoundary
    /\ \E i \in DOMAIN obs[1].routed.tail_single :
          ~QLt(QAdd(YMid(obs[1].routed.tail_single[i]), QI(20)), TailBoundary)
    /\ obs[1].routed.wide_lower # <<>>
    /\ Len(obs[1].buckets.tail_single) > Len(obs[1].routed.tail_single)

\* the tail group as routed, and its article headings
RoutedTail == obs[1].routed.tail_single \o obs[1].routed.wide_lower
TailHeadings == SelectSeq(RoutedTail, LAMBDA ln : ARTICLE_HEAD_RE(ln.t))

\* the midpoint of the highest article heading of the tail group
HighestTailHeading ==
    YMid(TailHeadings[CHOOSE i \in DOMAIN TailHeadings :
            \A j \in DOMAIN TailHeadings :
                QLe(YMid(TailHeadings[j]), YMid(TailHeadings[i]))])

\* 2 to 60 characters, no digit, no strong punctuation
TitleShaped(t) ==
    LET ts == Strip(t)
    IN  /\ 2 <= TextLen(ts) /\ TextLen(ts) <= 60
        /\ ~\E i \in DOMAIN ts : HasDigit(ts[i]) \/ HasStrongPunct(ts[i])

\* title-shaped, below the highest tail heading and within 64pt of it
Promoted(ln) ==
    /\ TitleShaped(ln.t)
    /\ QLt(YMid(ln), HighestTailHeading)
    /\ QLe(QSub(HighestTailHeading, YMid(ln)), QI(64))

\* a line that matches one of the terminal-anchor patterns: a proclamation,
\* a standalone annex heading, an opener, or a name in capitals
AnchorPatternLine(ln) ==
    \/ PROCLAIM_RE(ln.t)
    \/ _is_annex_heading_line(ln.t)
    \/ IsOpenerLine(ln)
    \/ UPPER_GREEK_NAME_RE(Strip(ln.t))

\* the same without the annex heading
EvidenceLine(ln) ==
    \/ PROCLAIM_RE(ln.t)
    \/ IsOpenerLine(ln)
    \/ UPPER_GREEK_NAME_RE(Strip(ln.t))

\* the buckets of the page are the routed ones, but for the promoted lines
\* of left and right, which are in tail-single, when the promotion applies
PromotionFrame(applies) ==
    LET r == obs[1].routed
        b == obs[1].buckets
        Stays(ln) == ~(applies /\ Promoted(ln))
        Goes(ln) == applies /\ Promoted(ln)
    IN  /\ SortLines(b.left) = SortLines(SelectSeq(r.left, Stays))
        /\ SortLines(b.right) = SortLines(SelectSeq(r.right, Stays))
        /\ SortLines(b.tail_single)
              = SortLines(r.tail_single \o SelectSeq(r.left, Goes)
                                         \o SelectSeq(r.right, Goes))
        /\ SortLines(b.wide_upper) = SortLines(r.wide_upper)
        /\ SortLines(b.wide_lower) = SortLines(r.wide_lower)

\* C25 as stated: the promotion applies when there is a tail zone and the
\* tail group holds a line of a terminal-anchor pattern and an article
\* heading; it then moves to tail-single exactly the title-shaped lines of
\* left and right that lie below the highest tail heading within 64pt;
\* otherwise, and for wide-upper always, the buckets stay as routed.
C25_PromotionOnAnyAnchor ==
    Routed =>
        PromotionFrame(/\ HasTailZone
                       /\ \E i \in DOMAIN RoutedTail : AnchorPatternLine(RoutedTail[i])
                       /\ TailHeadings # <<>>)

\* C25, amended: ... holds a proclamation, an opener or a name in capitals
\* (an annex heading does not count) and an article heading ...
C25_PromotionOnEvidence ==
    Routed =>
        PromotionFrame(/\ HasTailZone
                       /\ \E i \in DOMAIN RoutedTail : EvidenceLine(RoutedTail[i])
                       /\ TailHeadings # <<>>)

\* a promotion that took a line of a column and left beside it a sentence,
\* a line level with the heading and a line above it
C25_Witness ==
    /\ Routed /\ HasTailZone /\ TailHeadings # <<>>
    /\ \E i \in DOMAIN RoutedTail : EvidenceLine(RoutedTail[i])
    /\ Len(obs[1].buckets.tail_single) > Len(obs[1].routed.tail_single)
    /\ \E i \in DOMAIN obs[1].buckets.right :
          /\ ~TitleShaped(obs[1].buckets.right[i].t)
          /\ QLt(YMid(obs[1].buckets.right[i]), HighestTailHeading)
    /\ \E i \in DOMAIN obs[1].buckets.right :
          /\ TitleShaped(obs[1].buckets.right[i].t)
          /\ YMid(obs[1].buckets.right[i]) = HighestTailHeading
    /\ \E i \in DOMAIN obs[1].buckets.left :
          /\ TitleShaped(obs[1].buckets.left[i].t)
          /\ QLt(HighestTailHeading, YMid(obs[1].buckets.left[i]))

(***************************************************************************)
(* SpecBottom: _estimate_column_bottom and the routing of step 6 on the    *)
(* narrow lines of a page whose rows, one per 15pt bin from the top down,  *)
(* come in at most MaxSegments segments: rows with a line in each column   *)
(* (one or two lines each), or rows with a line at the left only.          *)
(***************************************************************************)
MaxSegments == 3

\* <<lines per column, left only?, rows>>
BandSegments ==
    { <<1, FALSE, 1>>, <<1, FALSE, 2>>, <<1, FALSE, 4>>, <<2, FALSE, 4>>,
      <<1, TRUE, 1>>, <<1, TRUE, 2>> }

\* the lines of row k from the top, midpoint 712 - 15k
BandRow(seg, k) ==
    [i \in 1..seg[1] |-> Row(40, 220, 717 - 15 * k, LeftBody)]
        \o (IF seg[2] THEN <<>>
            ELSE [i \in 1..seg[1] |-> Row(260, 440, 717 - 15 * k, RightBody)])

\* the lines of the segments segs, the first of them in row from + 1
RECURSIVE BandLines(_, _)
BandLines(segs, from) ==
    IF segs = <<>> THEN <<>>
    ELSE Flatten([k \in 1..Head(segs)[3] |-> BandRow(Head(segs), from + k)])
             \o BandLines(Tail(segs), from + Head(segs)[3])

BandHeights == {720, 960}

BandInputs(n) ==
    { [narrow |-> BandLines(segs, 0), h |-> h] :
        segs \in UNION { [1..m -> BandSegments] : m \in 1..n }, h \in BandHeights }

InitBottom ==
    /\ NoRuns
    /\ store = [s \in Runs |-> <<>>]
    /\ call \in { [fn |-> "_estimate_column_bottom", st |-> "called",
                   narrow |-> in.narrow, split_x |-> QI(240), w |-> QI(480),
                   h |-> QI(in.h), ret |-> None, routed |-> NoBuckets] :
                  in \in BandInputs(MaxSegments) }

\* steps 5 and 6 of process_page
BottomCall ==
    /\ call.fn = "_estimate_column_bottom" /\ call.st = "called"
    /\ \E y \in {_estimate_column_bottom(call.narrow, call.split_x, call.w, call.h)} :
          call' = [call EXCEPT !.st = "returned", !.ret = y,
                               !.routed = Classify(call.narrow, call.split_x,
                                                   call.w, y)]
    /\ UNCHANGED <<runVars, store>>

SpecBottom == InitBottom /\ [][BottomCall]_vars

\* ---- the tail-zone classifier, as stated -------------------------------
BottomReturned == call.fn = "_estimate_column_bottom" /\ call.st = "returned"

\* the number of bins, and the bin a midpoint falls in
BandBins == IF QFloor(call.h) \div 15 > 48 THEN QFloor(call.h) \div 15 ELSE 48
BandBinOf(ln) ==
    LET b == (BandBins * (ln.y0 + ln.y1)) \div (2 * QFloor(call.h))
    IN  IF b > BandBins - 1 THEN BandBins - 1 ELSE b

\* the narrow lines of bin i at the left / at the right of the split
LinesInBin(i, left) ==
    {k \in DOMAIN call.narrow :
        /\ BandBinOf(call.narrow[k]) = i
        /\ (2 * QFloor(call.split_x) > call.narrow[k].x0 + call.narrow[k].x1) = left}

BothColumns(i) == LinesInBin(i, TRUE) # {} /\ LinesInBin(i, FALSE) # {}

\* bin i after the isolated 1-bin gaps are filled
InBand(i) ==
    \/ BothColumns(i)
    \/ 0 < i /\ i < BandBins - 1 /\ BothColumns(i - 1) /\ BothColumns(i + 1)

\* the bins of the band, and the number of narrow lines per bin
Band == {i \in 0..(BandBins - 1) : InBand(i)}
BinLineCount ==
    [i \in 0..(BandBins - 1) |->
        Cardinality(LinesInBin(i, TRUE)) + Cardinality(LinesInBin(i, FALSE))]

\* the maximal contiguous runs <<low, high>> of the bins in band
RunsIn(band) ==
    {r \in band \X band :
        /\ r[1] <= r[2]
        /\ \A i \in r[1]..r[2] : i \in band
        /\ (r[1] - 1) \notin band
        /\ (r[2] + 1) \notin band}

RunLength(r) == r[2] - r[1] + 1
RunLineCount(r, cnt) == SumInts([k \in 1..RunLength(r) |-> cnt[r[1] + k - 1]])

\* max(4, 8% of the bin count)
RequiredLength == IF (8 * BandBins) \div 100 > 4 THEN (8 * BandBins) \div 100 ELSE 4

\* the longest runs, and among them those with the most lines
LongestRuns(runs, cnt) ==
    {r \in runs :
        \A o \in runs :
            \/ RunLength(o) < RunLength(r)
            \/ RunLength(o) = RunLength(r) /\ RunLineCount(o, cnt) <= RunLineCount(r, cnt)}

\* the classifier's answer is that of the runs: +infinity when none is long
\* enough, else the lower edge of a longest run, none of whose lines is in
\* the tail group
AnswerOfRuns(runs, cnt) ==
    /\ call.ret = Inf <=> \A r \in runs : RunLength(r) < RequiredLength
    /\ call.ret # Inf =>
          \E r \in LongestRuns(runs, cnt) :
              /\ call.ret = Q(r[1] * QFloor(call.h), BandBins)
              /\ \A k \in DOMAIN call.narrow :
                    (r[1] <= BandBinOf(call.narrow[k])
                        /\ BandBinOf(call.narrow[k]) <= r[2])
                    => /\ Count(call.routed.tail_single, call.narrow[k]) = 0
                       /\ Count(call.routed.wide_lower, call.narrow[k]) = 0

\* C26: the classifier returns +infinity exactly when no run of bins with
\* lines in both columns (isolated 1-bin gaps filled) is max(4, 8% of the
\* bin count) long; otherwise it returns the lower edge of the longest
\* such run (of the one with more lines among equally long ones), and no
\* line with its midpoint in that run is routed to the tail group.
C26_TailBoundary ==
    BottomReturned =>
        Once(LAMBDA band : Once(LAMBDA cnt : AnswerOfRuns(RunsIn(band), cnt),
                                BinLineCount),
             Band)

\* two runs of equal length, the one with more lines decides, a filled gap
\* elsewhere, and lines in the tail group
C26_Witness ==
    /\ BottomReturned /\ call.ret # Inf
    /\ \E r, o \in RunsIn(Band) :
          /\ r # o /\ RunLength(r) = RunLength(o)
          /\ RunLineCount(r, BinLineCount) > RunLineCount(o, BinLineCount)
          /\ call.ret = Q(r[1] * QFloor(call.h), BandBins)
          /\ r[1] > o[1]
    /\ call.routed.tail_single # <<>>



(***************************************************************************)
(* SpecFeed: one ColumnExtractor, with its own SplitSmoother, is fed a run *)
(* of pages by direct process_page calls: two leading pages, then one page *)
(* again and again, MaxFeeds calls in all.  The page texts are not kept.   *)
(***************************************************************************)
MaxFeeds == 8

\* two lines at the left and six at the right: no split of its own
TwoSixPage == Page(QI(480), QI(720), 0, TwoSixColumns)

\* the pages fed, and steps 0-2 of process_page for each of them
FeedPages ==
    << TwoColPage, ShortPage, SignaturePage, WideSignaturePage, LeftHalfPage,
       SlimBroadPage, TwoSixPage >>
FeedFacts == [i \in DOMAIN FeedPages |-> PageFacts(FeedPages[i])]
FeedIdx == DOMAIN FeedPages

\* a run of n pages: a, b, then c repeated
FeedRun(a, b, c, n) == [k \in 1..n |-> IF k = 1 THEN a ELSE IF k = 2 THEN b ELSE c]

InitFeed ==
    /\ \E a \in FeedIdx, b \in FeedIdx, c \in FeedIdx :
           doc = [r \in Runs |-> IF r = 1 THEN FeedRun(a, b, c, MaxFeeds) ELSE <<>>]
    /\ pc = [r \in Runs |-> IF r = 1 THEN "feed" ELSE "idle"]
    /\ fetched = [r \in Runs |-> 0]
    /\ out_pages = [r \in Runs |-> <<>>]
    /\ full_text = [r \in Runs |-> <<>>]
    /\ prev_split_x = [r \in Runs |-> None]
    /\ prev_w = [r \in Runs |-> None]
    /\ terminal_reached = [r \in Runs |-> FALSE]
    /\ seen_any_article = [r \in Runs |-> FALSE]
    /\ store = [s \in Runs |-> <<>>]
    /\ obs = [r \in Runs |-> NoObs]
    /\ call = [fn |-> "process_page"]

\* the next process_page call of the extractor, and what it assigns
FeedCall ==
    /\ pc[1] = "feed" /\ fetched[1] < Len(doc[1])
    /\ \E res \in {process_page(FeedPages[NextIdx(1)], FeedFacts[NextIdx(1)],
                                Extractor(1), store[SmootherOf(1)])} :
           /\ prev_split_x' = [prev_split_x EXCEPT ![1] = res.prev_split_x]
           /\ prev_w' = [prev_w EXCEPT ![1] = res.prev_w]
           /\ terminal_reached' = [terminal_reached EXCEPT ![1] = res.terminal_reached]
           /\ seen_any_article' = [seen_any_article EXCEPT ![1] = res.seen_any_article]
           /\ store' = [store EXCEPT ![SmootherOf(1)] = res.store]
           /\ obs' = [obs EXCEPT ![1] = Observe(res, fetched[1] + 1, NextIdx(1), @.origin)]
    /\ fetched' = [fetched EXCEPT ![1] = @ + 1]
    /\ UNCHANGED <<doc, pc, out_pages, full_text, call>>

SpecFeed == InitFeed /\ [][FeedCall]_vars

\* the page just fed, its signature and that signature's history
Fed == pc[1] = "feed" /\ fetched[1] >= 1
FedPage == FeedPages[obs[1].idx]
FedHistory == Entry(store[1], PageSignature(FedPage))


(***************************************************************************)
(* Properties of the split histories, on SpecFeed.                         *)
(***************************************************************************)
\* the last n entries of a sequence
LastOf(seq, n) == IF Len(seq) <= n THEN seq ELSE SubSeq(seq, Len(seq) - n + 1, Len(seq))

\* the histories of all signatures but one are the same in both stores
SameButFor(st1, st2, sig) ==
    /\ DOMAIN st2 \ {sig} = DOMAIN st1 \ {sig}
    /\ \A k \in DOMAIN st1 \ {sig} : st2[k] = st1[k]

\* C27: every history holds at most 7 ratios, the most recently pushed ones
\* in push order: a page with a split in effect (its own or the remembered
\* one, smoothed) appends that split's ratio, and nothing else, to the
\* history of its own signature, the oldest ratio leaving a full history;
\* a page without a split changes no history.
C27_BoundedFifo ==
    [][ LET pg == FeedPages[obs'[1].idx]
            sig == PageSignature(pg)
            used == obs'[1].split
        IN  /\ \A k \in DOMAIN store'[1] : Len(store'[1][k]) <= 7
            /\ used = None => store'[1] = store[1]
            /\ used # None =>
                 /\ sig \in DOMAIN store'[1]
                 /\ SameButFor(store[1], store'[1], sig)
                 /\ store'[1][sig]
                      = LastOf(Append(Entry(store[1], sig), QDiv(used, pg.w)), 7) ]_vars

\* an eighth ratio has been pushed to a history whose ratios differ
C27_Witness ==
    /\ Fed /\ obs[1].split # None
    /\ fetched[1] = 8
    /\ Len(FedHistory) = 7
    /\ FedHistory[1] # FedHistory[2]
    /\ FedHistory[7] = QDiv(obs[1].split, FedPage.w)


FedFrom == FeedPages[doc[1][obs[1].from]]

\* C29: a call writes prev_split_x and prev_w when, and only when, it emits
\* the page in two columns (the split used and the page width); a call that
\* emits in one column, for want of a split or after the unbalanced revert,
\* leaves both as they were.  The remembered split is taken for a page only
\* when the page has no split of its own and its width is less than 0.5 from
\* prev_w, so it is the split of the last page emitted in two columns, a
\* page of the same width.
C29_RememberedSplit ==
    [][ LET pg == FeedPages[obs'[1].idx]
        IN  /\ obs'[1].mode = "2col" =>
                 /\ prev_split_x'[1] = obs'[1].split
                 /\ prev_w'[1] = pg.w
            /\ obs'[1].mode # "2col" =>
                 /\ prev_split_x'[1] = prev_split_x[1]
                 /\ prev_w'[1] = prev_w[1]
            /\ obs'[1].sticky =>
                 /\ obs'[1].own = None
                 /\ prev_w[1] # None
                 /\ QLt(QAbs(QSub(pg.w, prev_w[1])), Q(1, 2))
                 /\ obs'[1].candidate = prev_split_x[1]
                 /\ obs'[1].from >= 1
                 /\ FeedPages[doc[1][obs'[1].from]].w = prev_w[1] ]_vars

\* a page reuses the split of a two-column page that is not the page before
\* it, and is itself reverted to one column
C29_Witness ==
    /\ Fed /\ obs[1].sticky
    /\ obs[1].mode = "unbalanced"
    /\ obs[1].from >= 1 /\ obs[1].from < obs[1].page - 1
    /\ prev_w[1] = FedFrom.w
    /\ obs[1].candidate = prev_split_x[1]


(***************************************************************************)
(* SpecOrder: two freshly constructed extractors are handed the same page, *)
(* the second with two of its lines in each other's place.  The page is    *)
(* TwoColPage or two full-width lines, with up to MaxExtras further lines, *)
(* some of which share their top edge and x0 with a line of the page.      *)
(***************************************************************************)
MaxExtras == 2

\* two full-width lines
OrderBases ==
    { TwoColPage.lines,
      <<Row(40, 440, 650, WideBody), Row(40, 440, 635, WideBody)>> }

\* lines to add: three that share top edge and x0 with a line already there
\* (one of them taller) and one that does not
OrderExtras ==
    { Row(40, 220, 635, Sentence), Ln(40, 615, 220, 635, RightBody),
      Row(260, 440, 620, Sentence), Row(40, 220, 590, LeftBody) }

\* the elements of a set of lines as a sequence, in some order
RECURSIVE AsSeq(_)
AsSeq(S) == IF S = {} THEN <<>>
            ELSE LET x == CHOOSE x \in S : TRUE IN <<x>> \o AsSeq(S \ {x})

\* the sequence with the elements at i and j in each other's place
Swapped(seq, i, j) ==
    [k \in DOMAIN seq |-> IF k = i THEN seq[j] ELSE IF k = j THEN seq[i] ELSE seq[k]]

\* a page as the backend may list it, and the same lines listed otherwise
OrderInputs(n) ==
    UNION { { [lines |-> listed, other |-> Swapped(listed, i, j)] :
                i \in DOMAIN listed, j \in DOMAIN listed } :
            listed \in { base \o AsSeq(extra) :
                           base \in OrderBases,
                           extra \in { e \in SUBSET OrderExtras : Cardinality(e) <= n } } }

InitOrder ==
    /\ doc = [r \in Runs |-> <<>>]
    /\ pc = [r \in Runs |-> "order"]
    /\ fetched = [r \in Runs |-> 0]
    /\ out_pages = [r \in Runs |-> <<>>]
    /\ full_text = [r \in Runs |-> <<>>]
    /\ prev_split_x = [r \in Runs |-> None]
    /\ prev_w = [r \in Runs |-> None]
    /\ terminal_reached = [r \in Runs |-> FALSE]
    /\ seen_any_article = [r \in Runs |-> FALSE]
    /\ store = [s \in Runs |-> <<>>]
    /\ obs = [r \in Runs |-> NoObs]
    /\ call \in { [fn |-> "process_page", w |-> QI(480), h |-> QI(720),
                   lines |-> in.lines, other |-> in.other] :
                  in \in OrderInputs(MaxExtras) }

\* the page as extractor r receives it
OrderPage(r) == Page(call.w, call.h, 0, IF r = 1 THEN call.lines ELSE call.other)

\* process_page of extractor r on its listing of the page
OrderCall(r) ==
    /\ pc[r] = "order"
    /\ \E res \in {process_page(OrderPage(r), PageFacts(OrderPage(r)), Extractor(r),
                                store[SmootherOf(r)])} :
           /\ ~res.raised
           /\ prev_split_x' = [prev_split_x EXCEPT ![r] = res.prev_split_x]
           /\ prev_w' = [prev_w EXCEPT ![r] = res.prev_w]
           /\ terminal_reached' = [terminal_reached EXCEPT ![r] = res.terminal_reached]
           /\ seen_any_article' = [seen_any_article EXCEPT ![r] = res.seen_any_article]
           /\ store' = [store EXCEPT ![SmootherOf(r)] = res.store]
           /\ obs' = [obs EXCEPT ![r] = Observe(res, 1, 1, 0)]
           /\ out_pages' = [out_pages EXCEPT ![r] = Append(@, res.text)]
    /\ fetched' = [fetched EXCEPT ![r] = 1]
    /\ pc' = [pc EXCEPT ![r] = "ordered"]
    /\ UNCHANGED <<doc, full_text, call>>

OrderFirst == OrderCall(1)
OrderSecond == OrderCall(2)

NextOrder == OrderFirst \/ OrderSecond

SpecOrder == InitOrder /\ [][NextOrder]_vars

\* both extractors have returned
BothOrdered == pc[1] = "ordered" /\ pc[2] = "ordered"

\* two lines of the page that share top edge and x0 and differ in text
TiedLines ==
    \E i \in DOMAIN call.lines, j \in DOMAIN call.lines :
        /\ call.lines[i].y1 = call.lines[j].y1
        /\ call.lines[i].x0 = call.lines[j].x0
        /\ call.lines[i].t # call.lines[j].t

\* C30: whatever the order in which the lines of a page are listed,
\* process_page returns the same text and leaves the same terminal_reached
\* and the same extractor state, also when two lines share their top edge
\* and their x0.
C30_OrderIndependent ==
    BothOrdered =>
        /\ out_pages[1] = out_pages[2]
        /\ terminal_reached[1] = terminal_reached[2]
        /\ seen_any_article[1] = seen_any_article[2]
        /\ prev_split_x[1] = prev_split_x[2]
        /\ prev_w[1] = prev_w[2]
        /\ store[1] = store[2]

====
